---- MODULE Spec2Model ----
(***************************************************************************)
(* Battle store (src/stores/battle.ts), the battle screen handlers that    *)
(* write to it (src/components/BattleScreen.vue) and the synchronous       *)
(* engine resolveTurn (src/domain/battle/engine/resolveTurn.ts).           *)
(*                                                                         *)
(* Creatures are objects on a heap and the store holds references to them, *)
(* as the TypeScript does: `player`, `npc`, the team arrays and the        *)
(* attacker/defender arguments of a running executeAttack are references.  *)
(* An asynchronous selectPlayerMove is cut at its awaits: one action runs  *)
(* from one suspension point to the next, and the screen handlers can run  *)
(* in between.                                                             *)
(*                                                                         *)
(* Numbers: a random draw is rv/RngDen with rv in RngVals; a type          *)
(* multiplier m is carried as 4*m; floors are taken on exact rationals.    *)
(***************************************************************************)
EXTENDS Integers, Sequences, FiniteSets, TLC

(***************************************************************************)
(* Bounds of the model.                                                    *)
(***************************************************************************)
MaxTurn == 2
MaxUiOps == 1
MaxBattles == 2

(***************************************************************************)
(* Random source.  A draw is RngVals-element / RngDen, in [0,1).           *)
(***************************************************************************)
RngDen == 100
RngVals == {0, RngDen - 1}
NoSeed == "undefined"
Seeds == {"s1", "s2"}

\* createSeededRng(seed): the k-th value (k = 0, 1, ...) of the stream of a seed.
SeededStream(seed, k) ==
  IF seed = "s1" THEN (IF k % 2 = 0 THEN 0 ELSE RngDen - 1)
                 ELSE (IF k % 3 = 0 THEN RngDen - 1 ELSE 0)

(***************************************************************************)
(* Entities (entities.ts): moves, stats, creatures.                        *)
(***************************************************************************)
NoEffect == [type |-> "none", target |-> "none", stat |-> "none", stages |-> 0,
             condition |-> "none", chance |-> 0]

StatKeys == {"atk", "def", "spAtk", "spDef", "speed", "accuracy", "evasion"}

Mv(id, ty, pw, acc, cat, eff) ==
  [id |-> id, type |-> ty, power |-> pw, accuracy |-> acc, category |-> cat, effect |-> eff]

GrowlEffect == [type |-> "stat-change", target |-> "opponent", stat |-> "atk",
                stages |-> -1, condition |-> "none", chance |-> 100]
ParalyzeEffect == [type |-> "status-condition", target |-> "opponent", stat |-> "none",
                   stages |-> 0, condition |-> "paralysis", chance |-> 10]
HowlEffect == [type |-> "stat-change", target |-> "self", stat |-> "atk",
               stages |-> 1, condition |-> "none", chance |-> 100]

Tackle == Mv("tackle", "Normal", 40, 100, "physical", NoEffect)
Swift == Mv("swift", "Normal", 60, 0, "special", NoEffect)
Growl == Mv("growl", "Normal", 0, 100, "status", GrowlEffect)
Spark == Mv("spark", "Electric", 40, 90, "special", ParalyzeEffect)
Lick == Mv("lick", "Ghost", 40, 100, "physical", NoEffect)
Bubble == Mv("bubble", "Water", 40, 100, "special", NoEffect)
Ember == Mv("ember", "Fire", 40, 100, "special", NoEffect)
PoisonEffect == [type |-> "status-condition", target |-> "opponent", stat |-> "none",
                 stages |-> 0, condition |-> "poison", chance |-> 100]
SleepEffect == [type |-> "status-condition", target |-> "opponent", stat |-> "none",
                stages |-> 0, condition |-> "sleep", chance |-> 100]
AgilityEffect == [type |-> "stat-change", target |-> "self", stat |-> "speed",
                  stages |-> 2, condition |-> "none", chance |-> 100]
PoisonPowder == Mv("poison-powder", "Poison", 0, 100, "status", PoisonEffect)
Hypnosis == Mv("hypnosis", "Psychic", 0, 60, "status", SleepEffect)
Agility == Mv("agility", "Psychic", 0, 100, "status", AgilityEffect)
\* a status move as the battle screen converts it: category special, power 0
Howl == Mv("howl", "Normal", 0, 100, "special", HowlEffect)

\* PLACEHOLDER_MOVE
PLACEHOLDER_MOVE == Mv("placeholder-move", "Normal", 0, 100, "physical", NoEffect)

St(hp, atk, def, spAtk, spDef, speed) ==
  [hp |-> hp, atk |-> atk, def |-> def, spAtk |-> spAtk, spDef |-> spDef, speed |-> speed]

\* The creatures of the two rosters handed to startBattle, and the placeholder.
Species ==
  [ placeholder |-> [name |-> "placeholder", types |-> <<"Normal">>, level |-> 1,
                     stats |-> St(1, 1, 1, 1, 1, 1), moves |-> <<PLACEHOLDER_MOVE>>],
    pika |-> [name |-> "pika", types |-> <<"Electric">>, level |-> 5,
              stats |-> St(5, 10, 10, 10, 10, 9), moves |-> <<Tackle, Swift, Growl>>],
    gast |-> [name |-> "gast", types |-> <<"Ghost", "Poison">>, level |-> 5,
              stats |-> St(5, 10, 10, 10, 10, 3), moves |-> <<Lick, Spark>>],
    squi |-> [name |-> "squi", types |-> <<"Water">>, level |-> 5,
              stats |-> St(4, 10, 10, 10, 10, 5), moves |-> <<Bubble, Tackle>>],
    char |-> [name |-> "char", types |-> <<"Fire">>, level |-> 5,
              stats |-> St(4, 10, 10, 16, 10, 7), moves |-> <<Ember, Howl>>],
    ekan |-> [name |-> "ekan", types |-> <<"Poison">>, level |-> 5,
              stats |-> St(16, 10, 10, 10, 10, 3),
              moves |-> <<PoisonPowder, Hypnosis, Agility>>],
    snor |-> [name |-> "snor", types |-> <<"Normal">>, level |-> 5,
              stats |-> St(16, 10, 10, 10, 10, 5), moves |-> <<Tackle>>] ]

PlayerRoster == <<"pika", "gast">>
NpcRoster == <<"squi", "char">>

\* a second pair of rosters, one creature each, whose moves set status
\* conditions and speed stages
StatusPlayerRoster == <<"ekan">>
StatusNpcRoster == <<"snor">>

\* SAMPLE_NPC (data/pokemon): the opponent of a battle with the custom team
SAMPLE_NPC == "squi"

\* the pairs of rosters startBattle is called with; one of a pair can be empty
Matchups == {<<PlayerRoster, NpcRoster>>, <<StatusPlayerRoster, StatusNpcRoster>>,
             <<PlayerRoster, << >> >>, << << >>, NpcRoster>>}

\* Team members of the team store (models/teamBuilder.ts TeamMember): base
\* stats, level and the selected moves in the team builder's format, where a
\* status move has power null and an always-hitting move has accuracy null.
NullValue == -1
TmMove(id, ty, pw, acc, cat, eff) ==
  [id |-> id, type |-> ty, power |-> pw, accuracy |-> acc, category |-> cat, effect |-> eff]

TeamMembers ==
  [ tmpika |-> [name |-> "tmpika", types |-> <<"Electric">>, level |-> 5,
                stats |-> [hp |-> 35, attack |-> 10, defense |-> 10, spAttack |-> 10,
                           spDefense |-> 10, speed |-> 9],
                selectedMoves |-> <<TmMove("tackle", "Normal", 40, 100, "Physical", NoEffect),
                                    TmMove("swift", "Normal", 60, NullValue, "Special", NoEffect),
                                    TmMove("growl", "Normal", NullValue, 100, "Status",
                                           GrowlEffect)>>],
    tmmute |-> [name |-> "tmmute", types |-> <<"Normal">>, level |-> 5,
                stats |-> [hp |-> 35, attack |-> 10, defense |-> 10, spAttack |-> 10,
                           spDefense |-> 10, speed |-> 9],
                selectedMoves |-> << >>] ]

\* move.power ?? 0, move.accuracy ?? 100
Coalesce(v, d) == IF v = NullValue THEN d ELSE v

\* move.category.toLowerCase()
LowerCategory(cat) ==
  CASE cat = "Physical" -> "physical" [] cat = "Special" -> "special"
    [] cat = "Status" -> "status" [] OTHER -> cat

\* transformTeamMemberToBattlePokemon (pokemonService.ts 226-266): the HP from
\* the base stat and the level, the moves without their effect
transformTeamMemberToBattlePokemon(tm) ==
  LET maxHp == (((2 * tm.stats.hp + 31) * tm.level) \div 100) + tm.level + 10
  IN [name |-> tm.name, types |-> tm.types, level |-> tm.level,
      stats |-> St(maxHp, tm.stats.attack, tm.stats.defense, tm.stats.spAttack,
                   tm.stats.spDefense, tm.stats.speed),
      moves |-> [i \in 1..Len(tm.selectedMoves) |->
                   Mv(tm.selectedMoves[i].id, tm.selectedMoves[i].type,
                      Coalesce(tm.selectedMoves[i].power, 0),
                      Coalesce(tm.selectedMoves[i].accuracy, 100),
                      LowerCategory(tm.selectedMoves[i].category), NoEffect)]]

\* the battle Pokemon a key stands for: a roster creature, or a converted
\* team member
Definition(k) ==
  IF k \in DOMAIN TeamMembers THEN transformTeamMemberToBattlePokemon(TeamMembers[k])
                              ELSE Species[k]

\* teamStore.roster when startBattleWithCustomTeam is called
TeamStoreRosters == {<< >>, <<"tmmute">>, <<"tmmute", "tmpika">>}

\* Move ids a caller can submit; "zz" belongs to no creature.
MoveIds == {"tackle", "swift", "growl", "lick", "spark", "placeholder-move", "zz",
            "poison-powder", "hypnosis", "agility"}

(***************************************************************************)
(* Type chart (calc/typeChart.ts): attacking type x defending type -> 4*m. *)
(***************************************************************************)
TypeChart4(atkType, defType) ==
  CASE atkType = "Normal" /\ defType = "Ghost" -> 0
    [] atkType = "Ghost" /\ defType = "Ghost" -> 8
    [] atkType = "Electric" /\ defType = "Water" -> 8
    [] atkType = "Electric" /\ defType = "Electric" -> 2
    [] atkType = "Water" /\ defType = "Fire" -> 8
    [] atkType = "Fire" /\ defType = "Water" -> 2
    [] atkType = "Fire" /\ defType = "Fire" -> 2
    [] OTHER -> 4

\* computeTypeMultiplier(moveType, defenderType | [t1, t2]), as 4*multiplier
computeTypeMultiplier(moveType, types) ==
  IF Len(types) = 1
    THEN TypeChart4(moveType, types[1])
    ELSE (TypeChart4(moveType, types[1]) * TypeChart4(moveType, types[2])) \div 4

(***************************************************************************)
(* calculateDamage (calc/damage.ts), called as the store calls it: no      *)
(* stage multipliers and no status modifier are passed, so all three are   *)
(* 1.0 and effectiveAtk = atk, effectiveDef = def.  rv is the draw.        *)
(***************************************************************************)
Max(a, b) == IF a >= b THEN a ELSE b
Min(a, b) == IF a <= b THEN a ELSE b

\* levelFactor = Math.floor((2 * level) / 5 + 2)
levelFactor(level) == (2 * level + 10) \div 5

\* base = Math.floor(((levelFactor * power * effectiveAtk) / Math.max(1, effectiveDef)) / 50) + 2:
\* one floor of the quotient by effectiveDef and by 50
\* the division by 50 made, and floored, before the stats are applied
baseDamageDividedFirst(level, power, effectiveAtk, effectiveDef) ==
  ((((levelFactor(level) * power) \div 50) * effectiveAtk) \div Max(1, effectiveDef)) + 2

baseDamage(level, power, effectiveAtk, effectiveDef) ==
  ((levelFactor(level) * power * effectiveAtk) \div (Max(1, effectiveDef) * 50)) + 2

\* the attacking and the defending stat taken for one another
calculateDamageStatsSwapped(level, power, atk, def, mult4, rv) ==
  LET effectiveAtk == def
      effectiveDef == atk
      base == baseDamage(level, power, effectiveAtk, effectiveDef)
      total == (base * mult4 * (85 * RngDen + 15 * rv)) \div (4 * 100 * RngDen)
  IN Max(0, total)

calculateDamage(level, power, atk, def, mult4, rv) ==
  LET effectiveAtk == atk
      effectiveDef == def
      base == baseDamage(level, power, effectiveAtk, effectiveDef)
      \* rand = 0.85 + rv/RngDen * 0.15 = (85*RngDen + 15*rv) / (100*RngDen)
      total == (base * mult4 * (85 * RngDen + 15 * rv)) \div (4 * 100 * RngDen)
  IN Max(0, total)

(***************************************************************************)
(* State.  The store's fields keep their names; `heap` holds the creature  *)
(* objects, and player, npc, playerTeam[i], npcTeam[i] and the arguments   *)
(* of executeAttack are references into it.  The last group is the         *)
(* activation of the one selectPlayerMove that can be suspended: its       *)
(* position `pc`, its locals and the position of its rng.                  *)
(***************************************************************************)
VARIABLES turn, phase, player, npc, playerTeam, npcTeam,
          currentPlayerIndex, currentNpcIndex, winner, log, seed,
          heap,
          pc, cur, playerFirst, playerMove, npcMove, rngPos, inFlight,
          lastCall, uiOps, battles,
          fn,
          teamRoster, localStorage, teamCall,
          chartCache, chartCall, fetchCall

\* the battle store and the suspended selectPlayerMove
storeVars == <<turn, phase, player, npc, playerTeam, npcTeam,
               currentPlayerIndex, currentNpcIndex, winner, log, seed,
               heap, pc, cur, playerFirst, playerMove, npcMove, rngPos, inFlight,
               lastCall, uiOps, battles>>

\* fn: one call of a pure function, its arguments and its result.
\* teamRoster, localStorage: the team store's roster and the item it
\* persists; teamCall is the last operation of the team store, the number of
\* operations so far, and whether all of them were edits made through the UI.
\* chartCache: the item of the type chart cache in localStorage; chartCall:
\* the last operation of the type chart service, its inputs, its result and
\* the clock.  fetchCall: one call of a PokeAPI fetch function and the
\* in-memory cache of its service.
netVars == <<chartCache, chartCall, fetchCall>>

otherVars == <<fn, teamRoster, localStorage, teamCall, chartCache, chartCall, fetchCall>>

vars == <<turn, phase, player, npc, playerTeam, npcTeam,
          currentPlayerIndex, currentNpcIndex, winner, log, seed,
          heap, pc, cur, playerFirst, playerMove, npcMove, rngPos, inFlight,
          lastCall, uiOps, battles, fn, teamRoster, localStorage, teamCall,
          chartCache, chartCall, fetchCall>>

\* what BattleState holds (entities.ts), as one tuple
battleState == <<turn, phase, player, npc, playerTeam, npcTeam,
                 currentPlayerIndex, currentNpcIndex, winner, log, heap>>

Null == "null"

\* How the latest accepted call of selectPlayerMove or resolveTurn ended: whether
\* it found the move id among the active creature's moves, and whether it threw.
NoCall == [op |-> "none", moveKnown |-> TRUE, threw |-> FALSE]
Threw(op) == [op |-> op, moveKnown |-> TRUE, threw |-> TRUE]
Returned(op, known) == [op |-> op, moveKnown |-> known, threw |-> FALSE]

\* Object identities: <<side, 0>> is the object the store's `player` / `npc`
\* field holds from construction on, <<side, i>> the i-th clone of a roster.
Sides == {"player", "npc"}
MaxTeam == Max(Len(PlayerRoster), Len(NpcRoster))
ObjIds == {<<sd, k>> : sd \in Sides, k \in 0..MaxTeam}
Own(sd) == <<sd, 0>>
Member(sd, i) == <<sd, i>>

\* The objects of the rosters the callers hold: <<"source", i>> is the roster
\* entry of SourceSpecies[i], as the caller left it.
SourceSpecies == <<"pika", "gast", "squi", "char", "ekan", "snor", "tmpika", "tmmute">>
SourceIds == {<<"source", i>> : i \in 1..Len(SourceSpecies)}
Source(sp) == <<"source", CHOOSE i \in 1..Len(SourceSpecies) : SourceSpecies[i] = sp>>
HeapIds == ObjIds \cup SourceIds

DEFAULT_STAT_STAGES == [k \in StatKeys |-> 0]
NoStatus == [condition |-> "none", turnsRemaining |-> 0, poisonCounter |-> 0]

\* a creature as clonePokemon builds it from a roster entry, at the given HP
NewCreature(sp, hp) ==
  [species |-> sp, currentHp |-> hp, statStages |-> DEFAULT_STAT_STAGES, status |-> NoStatus]

\* clonePokemon: a new object with the fields of p; the clone has no stat
\* stages and no status of its own
clonePokemon(p) == NewCreature(p.species, p.currentHp)

\* pokemon.currentHp = pokemon.stats.hp
FullHp(p) == [p EXCEPT !.currentHp = Definition(p.species).stats.hp]

\* createPlaceholderPokemon
createPlaceholderPokemon == NewCreature("placeholder", 1)

\* a roster entry as its owner holds it: the player's creatures were left
\* at 1 HP, the others are at full HP
SourceCreature(sp) ==
  NewCreature(sp, IF \E i \in 1..Len(PlayerRoster) : PlayerRoster[i] = sp
                    THEN 1 ELSE Definition(sp).stats.hp)

\* the heap after the store's construction; slots of team members that do
\* not exist hold a placeholder
ConstructedHeap ==
  [o \in HeapIds |->
     IF o \in SourceIds THEN SourceCreature(SourceSpecies[o[2]])
     ELSE IF o \in {Own("npc"), Member("npc", 1)}
       THEN clonePokemon(SourceCreature(SAMPLE_NPC))
     ELSE createPlaceholderPokemon]

\* The whole state as one record, so that the steps of a handler compose.
State ==
  [turn |-> turn, phase |-> phase, player |-> player, npc |-> npc,
   playerTeam |-> playerTeam, npcTeam |-> npcTeam,
   currentPlayerIndex |-> currentPlayerIndex, currentNpcIndex |-> currentNpcIndex,
   winner |-> winner, log |-> log, seed |-> seed, heap |-> heap,
   pc |-> pc, cur |-> cur, playerFirst |-> playerFirst, playerMove |-> playerMove,
   npcMove |-> npcMove, rngPos |-> rngPos, inFlight |-> inFlight,
   lastCall |-> lastCall, uiOps |-> uiOps, battles |-> battles]

Commit(T) ==
  /\ turn' = T.turn
  /\ phase' = T.phase
  /\ player' = T.player
  /\ npc' = T.npc
  /\ playerTeam' = T.playerTeam
  /\ npcTeam' = T.npcTeam
  /\ currentPlayerIndex' = T.currentPlayerIndex
  /\ currentNpcIndex' = T.currentNpcIndex
  /\ winner' = T.winner
  /\ log' = T.log
  /\ seed' = T.seed
  /\ heap' = T.heap
  /\ pc' = T.pc
  /\ cur' = T.cur
  /\ playerFirst' = T.playerFirst
  /\ playerMove' = T.playerMove
  /\ npcMove' = T.npcMove
  /\ rngPos' = T.rngPos
  /\ inFlight' = T.inFlight
  /\ lastCall' = T.lastCall
  /\ uiOps' = T.uiOps
  /\ battles' = T.battles
  /\ UNCHANGED otherVars

Def(S, ref) == Definition(S.heap[ref].species)
Name(S, ref) == Def(S, ref).name
Hp(S, ref) == S.heap[ref].currentHp
\* an entry that takes the place of the log's last one
PushOverLast(S, entry) ==
  [S EXCEPT !.log = IF @ = << >> THEN <<entry>> ELSE [@ EXCEPT ![Len(@)] = entry]]

\* this.log.push(entry)
Push(S, entry) == [S EXCEPT !.log = Append(@, entry)]

NoMove == Mv("none", "Normal", 0, 0, "status", NoEffect)
NoCur == [attacker |-> Own("player"), defender |-> Own("npc"), move |-> NoMove,
          label |-> "none", nth |-> 0]

\* moves.find(m => m.id === id): the index of the first move with that id, or 0
FindMove(moves, id) ==
  IF \E i \in 1..Len(moves) : moves[i].id = id
    THEN CHOOSE i \in 1..Len(moves) :
           moves[i].id = id /\ \A j \in 1..(i - 1) : moves[j].id # id
    ELSE 0

(***************************************************************************)
(* The state of the store after construction (state: () => ...).           *)
(***************************************************************************)
StoreInit ==
  /\ turn = 1
  /\ phase = "select"
  /\ player = Own("player")
  /\ npc = Own("npc")
  /\ playerTeam = << >>
  /\ npcTeam = << Member("npc", 1) >>
  /\ currentPlayerIndex = 0
  /\ currentNpcIndex = 0
  /\ winner = Null
  /\ log = << >>
  /\ seed = NoSeed
  /\ heap = ConstructedHeap
  /\ pc = "idle"
  /\ cur = NoCur
  /\ playerFirst = FALSE
  /\ playerMove = NoMove
  /\ npcMove = NoMove
  /\ rngPos = 0
  /\ inFlight = 0
  /\ lastCall = NoCall
  /\ uiOps = 0
  /\ battles = 0

\* no pure function called, the team store as constructed, nothing persisted
NoFn == [op |-> "none", args |-> << >>, done |-> TRUE, result |-> 0]
NoItem == [kind |-> "none"]
NoTeamCall == [op |-> "none", n |-> 0, uiOnly |-> TRUE]

\* no type chart loaded and nothing cached; no fetch called
NoChartCall == [op |-> "none", n |-> 0, now |-> 0]
NoFetch == [pc |-> "none"]

NetInit ==
  /\ chartCache = NoItem
  /\ chartCall = NoChartCall
  /\ fetchCall = NoFetch

Init ==
  /\ StoreInit
  /\ fn = NoFn
  /\ teamRoster = << >>
  /\ localStorage = NoItem
  /\ teamCall = NoTeamCall
  /\ NetInit

(***************************************************************************)
(* startBattle(playerTeam, npcTeam, seed).  Both rosters are cloned at     *)
(* full HP and the result of createInitialState is patched into the store. *)
(* The patch merges the fields of the lead into the object the store       *)
(* already holds in `player` (leadIsCopy), or stores the lead clone itself *)
(* (~leadIsCopy); createInitialState and the patch are not in battle.ts,   *)
(* so both outcomes are modelled.  A merged object keeps the fields the    *)
(* clone does not have: its stat stages and status.                        *)
(***************************************************************************)
\* the references a team without clonePokemon would hold: the roster's objects
TeamRefsToSource(sd, roster) == [i \in 1..Len(roster) |-> Source(roster[i])]

\* the references a team array holds: the clones, never the roster's objects
TeamRefs(sd, roster) == [i \in 1..Len(roster) |-> Member(sd, i)]

createInitialState(S, pTeam, nTeam, pRefs, nRefs, leadIsCopy) ==
  LET teamOf(sd) == IF sd = "player" THEN pTeam ELSE nTeam
      merged(sd) ==
        [teamOf(sd)[1] EXCEPT
           !.statStages = S.heap[IF sd = "player" THEN S.player ELSE S.npc].statStages,
           !.status = S.heap[IF sd = "player" THEN S.player ELSE S.npc].status]
      newHeap == [o \in HeapIds |->
                    IF o \in SourceIds THEN S.heap[o]
                    ELSE IF o[2] = 0
                      THEN (IF leadIsCopy THEN merged(o[1]) ELSE teamOf(o[1])[1])
                    ELSE IF o[2] <= Len(teamOf(o[1])) THEN teamOf(o[1])[o[2]]
                    ELSE createPlaceholderPokemon]
  IN [S EXCEPT !.heap = newHeap,
               !.playerTeam = pRefs,
               !.npcTeam = nRefs,
               !.player = IF leadIsCopy THEN Own("player") ELSE pRefs[1],
               !.npc = IF leadIsCopy THEN Own("npc") ELSE nRefs[1],
               !.currentPlayerIndex = 0,
               !.currentNpcIndex = 0]

\* roster.map(clonePokemon)
CloneTeam(S, roster) == [i \in 1..Len(roster) |-> clonePokemon(S.heap[Source(roster[i])])]

\* a call that throws after the log was already cleared
RejectedAfterWrite(S, op) == [S EXCEPT !.lastCall = Threw(op), !.log = << >>]

\* a call that throws before its first write
Rejected(S, op) == [S EXCEPT !.lastCall = Threw(op)]

\* a $patch that leaves the log of the earlier battle
PatchStartKeepLog(I, sd, op) ==
  [I EXCEPT !.seed = sd, !.turn = 1, !.phase = "select",
            !.winner = Null, !.lastCall = Returned(op, TRUE)]

\* the fields $patch writes after createInitialState
PatchStart(I, sd, op) ==
  [I EXCEPT !.seed = sd, !.log = << >>, !.turn = 1, !.phase = "select",
            !.winner = Null, !.lastCall = Returned(op, TRUE)]

startBattle(S, pRoster, nRoster, sd, leadIsCopy) ==
  LET pClones == CloneTeam(S, pRoster)
      nClones == CloneTeam(S, nRoster)
  IN IF Len(pClones) = 0 \/ Len(nClones) = 0
       THEN Rejected(S, "startBattle")
       ELSE PatchStart(createInitialState(S,
                         [i \in 1..Len(pClones) |-> FullHp(pClones[i])],
                         [i \in 1..Len(nClones) |-> FullHp(nClones[i])],
                         TeamRefs("player", pRoster), TeamRefs("npc", nRoster),
                         leadIsCopy),
                       sd, "startBattle")

\* teamStore.roster.map(transformTeamMemberToBattlePokemon).map(clone with
\* currentHp: pokemon.stats.hp); the opponent is [clonePokemon(SAMPLE_NPC)]
startBattleWithCustomTeam(S, roster, sd, leadIsCopy) ==
  IF Len(roster) = 0
    THEN Rejected(S, "startBattleWithCustomTeam")
    ELSE PatchStart(createInitialState(S,
                      [i \in 1..Len(roster) |->
                         NewCreature(roster[i], Definition(roster[i]).stats.hp)],
                      <<clonePokemon(S.heap[Source(SAMPLE_NPC)])>>,
                      TeamRefs("player", roster), TeamRefs("npc", <<SAMPLE_NPC>>),
                      leadIsCopy),
                    sd, "startBattleWithCustomTeam")

\* a started battle counts; a rejected call leaves the count
Started(S, R) ==
  IF R.lastCall.threw THEN R ELSE [R EXCEPT !.battles = S.battles + 1]

StartBattle ==
  /\ pc = "idle"
  /\ battles < MaxBattles
  /\ \E m \in Matchups, sd \in Seeds \cup {NoSeed}, leadIsCopy \in BOOLEAN :
       Commit(Started(State, startBattle(State, m[1], m[2], sd, leadIsCopy)))

StartBattleWithCustomTeam ==
  /\ pc = "idle"
  /\ battles < MaxBattles
  /\ \E roster \in TeamStoreRosters, sd \in Seeds \cup {NoSeed}, leadIsCopy \in BOOLEAN :
       Commit(Started(State, startBattleWithCustomTeam(State, roster, sd, leadIsCopy)))

\* endBattle: $reset puts the store back to the state of its construction
EndBattle ==
  /\ pc = "idle"
  /\ playerTeam # << >>
  /\ turn' = 1
  /\ phase' = "select"
  /\ player' = Own("player")
  /\ npc' = Own("npc")
  /\ playerTeam' = << >>
  /\ npcTeam' = << Member("npc", 1) >>
  /\ currentPlayerIndex' = 0
  /\ currentNpcIndex' = 0
  /\ winner' = Null
  /\ log' = << >>
  /\ seed' = NoSeed
  /\ heap' = [o \in HeapIds |-> IF o \in SourceIds THEN heap[o] ELSE ConstructedHeap[o]]
  /\ uiOps' = uiOps
  /\ lastCall' = NoCall
  /\ UNCHANGED <<pc, cur, playerFirst, playerMove, npcMove, rngPos, inFlight, battles>>
  /\ UNCHANGED otherVars

(***************************************************************************)
(* Random draws of one step.  A step consumes at most MaxDraws draws; with *)
(* a seed they are the next values of the seed's stream, without one the   *)
(* rng is seeded from the clock (seed ?? Date.now()) and any values can    *)
(* come.                                                                   *)
(***************************************************************************)
MaxDraws == 2
\* the draws of a step that reads n of them (the others are not looked at)
Clock == "Date.now()"

\* the rng seeded with the clock whatever the battle's seed
RngSeedClock(sd) == Clock

\* createSeededRng(this.seed ?? Date.now()): what the rng of a turn is seeded with
RngSeed(sd) == IF sd = NoSeed THEN Clock ELSE sd

Draws(sd, pos, n) ==
  {rs \in [1..MaxDraws -> RngVals] :
     \A k \in 1..MaxDraws :
       IF RngSeed(sd) = Clock THEN (k > n => rs[k] = 0)
                              ELSE rs[k] = SeededStream(RngSeed(sd), pos + k - 1)}

(***************************************************************************)
(* applyMoveEffect (services/battle/battleEffectService): one draw against *)
(* the chance, then a stat-stage change clamped to [-6, 6] or a status     *)
(* application refused when a status is active or a type is immune.        *)
(* Returns the new heap, whether the effect was applied, and its message.  *)
(***************************************************************************)
MinStage == -6
MaxStage == 6

\* the change clamped at the upper end only
applyStageChangeNoFloor(stage, delta) == Min(MaxStage, stage + delta)

applyStageChange(stage, delta) == Max(MinStage, Min(MaxStage, stage + delta))

Lower(ty) ==
  CASE ty = "Electric" -> "electric" [] ty = "Poison" -> "poison" [] ty = "Steel" -> "steel"
    [] ty = "Fire" -> "fire" [] ty = "Ice" -> "ice" [] ty = "Ghost" -> "ghost"
    [] ty = "Water" -> "water" [] ty = "Normal" -> "normal"
    [] ty = "ELECTRIC" -> "electric" [] ty = "FIRE" -> "fire" [] ty = "fIRE" -> "fire"
    [] ty = "POISON" -> "poison" [] ty = "STEEL" -> "steel" [] ty = "ICE" -> "ice"
    [] ty = "Grass" -> "grass" [] ty = "GRASS" -> "grass" [] OTHER -> ty

TYPE_IMMUNITIES(condition) ==
  CASE condition = "paralysis" -> {"electric"}
    [] condition = "sleep" -> {}
    [] condition = "poison" -> {"poison", "steel"}
    [] condition = "burn" -> {"fire"}
    [] condition = "freeze" -> {"ice"}
    [] condition = "badly-poisoned" -> {"poison", "steel"}
    [] OTHER -> {}

\* the type names compared as they are spelled
isImmuneToStatusAsSpelled(types, condition) ==
  \E i \in 1..Len(types) : types[i] \in TYPE_IMMUNITIES(condition)

isImmuneToStatus(types, condition) ==
  \E i \in 1..Len(types) : Lower(types[i]) \in TYPE_IMMUNITIES(condition)

applyMoveEffect(S, effect, attacker, defender, rs) ==
  LET target == IF effect.target = "self" THEN attacker ELSE defender
      rolled == rs[1] * 100 < effect.chance * RngDen
      old == S.heap[target]
      newStage == applyStageChange(old.statStages[effect.stat], effect.stages)
      canApply == old.status.condition = "none"
                  /\ ~isImmuneToStatus(Def(S, target).types, effect.condition)
      sleepTurns == 1 + (rs[2] * 3) \div RngDen
  IN IF ~rolled
       THEN [heap |-> S.heap, applied |-> FALSE, message |-> <<"none">>, draws |-> 1]
     ELSE IF effect.type = "stat-change"
       THEN IF newStage = old.statStages[effect.stat]
              THEN [heap |-> S.heap, applied |-> FALSE,
                    message |-> <<"stat-limit", Name(S, target), effect.stat>>, draws |-> 1]
              ELSE [heap |-> [S.heap EXCEPT ![target].statStages[effect.stat] = newStage],
                    applied |-> TRUE,
                    message |-> <<"stat-changed", Name(S, target), effect.stat, effect.stages>>,
                    draws |-> 1]
     ELSE IF effect.type = "status-condition"
       THEN IF ~canApply
              THEN [heap |-> S.heap, applied |-> FALSE,
                    message |-> <<"status-failed", Name(S, target)>>, draws |-> 1]
              ELSE [heap |-> [S.heap EXCEPT ![target].status =
                                [condition |-> effect.condition,
                                 turnsRemaining |-> IF effect.condition = "sleep"
                                                      THEN sleepTurns ELSE 0,
                                 poisonCounter |-> IF effect.condition = "badly-poisoned"
                                                     THEN 1 ELSE 0]],
                    applied |-> TRUE,
                    message |-> <<"status-applied", Name(S, target), effect.condition>>,
                    draws |-> IF effect.condition = "sleep" THEN 2 ELSE 1]
     ELSE [heap |-> S.heap, applied |-> FALSE, message |-> <<"none">>, draws |-> 1]

(***************************************************************************)
(* AI (ai/strategicAI): chooseMove returns the id of one of the attacker's *)
(* moves, picked with one draw of the shared rng.                          *)
(***************************************************************************)
chooseMove(S, attacker, defender, rv) ==
  LET moves == Def(S, attacker).moves
  IN moves[1 + (rv * Len(moves)) \div RngDen].id

(***************************************************************************)
(* executeAttack (battle.ts 301-394), cut at its awaits.                   *)
(***************************************************************************)
\* accuracyRoll = rng.next() * 100;  hit = accuracyRoll <= move.accuracy
Hit(move, rv) == rv * 100 <= move.accuracy * RngDen

\* the same test on the category alone
IsStatusCategory(move) == move.category = "status"

\* if (move.category === 'status' || move.power === 0)
IsStatusMove(move) == move.category = "status" \/ move.power = 0

HasEffect(move) == move.effect.type # "none"

\* the effect of cur.move resolved and logged (battle.ts 324-334, 375-386)
ResolveEffect(S, rs) ==
  LET E == applyMoveEffect(S, S.cur.move.effect, S.cur.attacker, S.cur.defender, rs)
      S1 == [S EXCEPT !.heap = E.heap, !.rngPos = @ + E.draws]
  IN [state |-> IF E.applied /\ E.message # <<"none">> THEN Push(S1, E.message) ELSE S1,
      logged |-> E.applied /\ E.message # <<"none">>]

\* the same with the move announced before the accuracy is tested
ExecStartAnnounced(S, attacker, defender, move, label, nth, rv) ==
  LET S1 == [S EXCEPT !.cur = [attacker |-> attacker, defender |-> defender,
                               move |-> move, label |-> label, nth |-> nth],
                      !.rngPos = @ + 1]
      S2 == Push(S1, <<"used", Name(S, attacker), move.id>>)
  IN IF ~Hit(move, rv)
       THEN [Push(S2, <<"miss", Name(S, attacker)>>) EXCEPT !.pc = "missWait"]
       ELSE [S2 EXCEPT !.pc = "hitWait"]

\* the same with the effect of the move resolved on a miss as well
ExecStartEffectOnMiss(S, attacker, defender, move, label, nth, rv) ==
  LET S1 == [S EXCEPT !.cur = [attacker |-> attacker, defender |-> defender,
                               move |-> move, label |-> label, nth |-> nth],
                      !.rngPos = @ + 1]
  IN IF ~Hit(move, rv)
       THEN [Push(IF HasEffect(move) THEN ResolveEffect(S1, <<0, 0>>).state ELSE S1,
                  <<"miss", Name(S, attacker)>>) EXCEPT !.pc = "missWait"]
       ELSE [Push(S1, <<"used", Name(S, attacker), move.id>>) EXCEPT !.pc = "hitWait"]

\* from the call to the first await (600 ms on a miss, 300 ms on a hit)
ExecStart(S, attacker, defender, move, label, nth, rv) ==
  LET S1 == [S EXCEPT !.cur = [attacker |-> attacker, defender |-> defender,
                               move |-> move, label |-> label, nth |-> nth],
                      !.rngPos = @ + 1]
  IN IF ~Hit(move, rv)
       THEN [Push(S1, <<"miss", Name(S, attacker)>>) EXCEPT !.pc = "missWait"]
       ELSE [Push(S1, <<"used", Name(S, attacker), move.id>>) EXCEPT !.pc = "hitWait"]

\* after the 300 ms of a hit: a status move resolves its effect and waits
\* 400 ms; a damaging move logs the effectiveness and waits 200 ms
HitWait(S, rs) ==
  LET m == S.cur.move
      effectiveness == computeTypeMultiplier(m.type, Def(S, S.cur.defender).types)
  IN IF IsStatusMove(m)
       THEN [(IF HasEffect(m) THEN ResolveEffect(S, rs).state ELSE S)
               EXCEPT !.pc = "statusWait"]
       ELSE [(IF effectiveness = 8 THEN Push(S, <<"super-effective">>)
              ELSE IF effectiveness = 2 THEN Push(S, <<"not-very-effective">>)
              ELSE IF effectiveness = 0 THEN Push(S, <<"no-effect">>)
              ELSE S)
               EXCEPT !.pc = "effWait"]

\* the damage of a move of attacker on defender (battle.ts 353-364,
\* resolveTurn.ts 54-69): attack against defence, or the special pair
DamageOf(S, attacker, defender, m, rv) ==
  LET a == Def(S, attacker)
      d == Def(S, defender)
  IN calculateDamage(a.level, m.power,
                     IF m.category = "physical" THEN a.stats.atk ELSE a.stats.spAtk,
                     IF m.category = "physical" THEN d.stats.def ELSE d.stats.spDef,
                     computeTypeMultiplier(m.type, d.types), rv)

AttackDamage(S, rv) == DamageOf(S, S.cur.attacker, S.cur.defender, S.cur.move, rv)

\* the same subtraction without the floor at 0
ApplyDamageUnclamped(hp, damage) == hp - damage

\* defender.currentHp = Math.max(0, defender.currentHp - damage)
ApplyDamage(hp, damage) == Max(0, hp - damage)

\* after the 200 ms: damage is computed, subtracted and logged; waits 500 ms
EffWait(S, rs) ==
  LET damage == AttackDamage(S, rs[1])
      d == S.cur.defender
  IN [Push([S EXCEPT !.heap[d].currentHp = ApplyDamage(@, damage), !.rngPos = @ + 1],
           <<"damage", Name(S, d), damage>>)
        EXCEPT !.pc = "dmgWait"]

\* the faint logged only below 0
FaintCheckBelowZero(S) ==
  IF Hp(S, S.cur.defender) < 0 THEN Push(S, <<"faint", Name(S, S.cur.defender)>>) ELSE S

\* if (defender.currentHp <= 0) log the faint
FaintCheck(S) ==
  IF Hp(S, S.cur.defender) <= 0 THEN Push(S, <<"faint", Name(S, S.cur.defender)>>) ELSE S

(***************************************************************************)
(* selectPlayerMove (battle.ts 191-263) and the two switch actions.        *)
(***************************************************************************)
Other(sd) == IF sd = "player" THEN "npc" ELSE "player"
Active(S, sd) == IF sd = "player" THEN S.player ELSE S.npc
Team(S, sd) == IF sd = "player" THEN S.playerTeam ELSE S.npcTeam
ActiveIndex(S, sd) == IF sd = "player" THEN S.currentPlayerIndex ELSE S.currentNpcIndex

\* team.findIndex((p, idx) => idx > current && p.currentHp > 0), 0-based, or -1
NextAlive(S, sd) ==
  LET team == Team(S, sd)
      ok(i) == i > ActiveIndex(S, sd) /\ Hp(S, team[i + 1]) > 0
  IN IF \E i \in 0..(Len(team) - 1) : ok(i)
       THEN CHOOSE i \in 0..(Len(team) - 1) : ok(i) /\ \A j \in 0..(i - 1) : ~ok(j)
       ELSE -1

\* selectPlayerMove returns: its locals and its rng are gone
Return(S) ==
  [S EXCEPT !.pc = "idle", !.inFlight = @ - 1, !.cur = NoCur, !.playerFirst = FALSE,
            !.playerMove = NoMove, !.npcMove = NoMove, !.rngPos = 0]

\* the end of the turn without the test of the winner
FinishWithoutWinnerTest(S) ==
  Return([S EXCEPT !.turn = @ + 1, !.phase = "select"])

\* if (this.winner) { await 500 ... } else { this.turn++; this.phase = 'select' }
Finish(S) ==
  IF S.winner # Null
    THEN [S EXCEPT !.pc = "endWait"]
    ELSE Return([S EXCEPT !.turn = @ + 1, !.phase = "select"])

\* what follows the first or second attack and its switch
Continue(S) ==
  LET second == IF S.playerFirst THEN "npc" ELSE "player"
  IN IF S.cur.nth = 1 /\ Hp(S, Active(S, second)) > 0 /\ S.winner = Null
       THEN [S EXCEPT !.pc = "gapWait"]
       ELSE Finish(S)

\* switchNpcPokemon / switchPlayerPokemon for side sd, up to its await
SwitchPokemon(S, sd) ==
  LET nextIndex == NextAlive(S, sd)
      S1 == IF sd = "player"
              THEN [S EXCEPT !.currentPlayerIndex = nextIndex,
                             !.player = S.playerTeam[nextIndex + 1]]
              ELSE [S EXCEPT !.currentNpcIndex = nextIndex,
                             !.npc = S.npcTeam[nextIndex + 1]]
  IN IF nextIndex # -1
       THEN [Push(S1, <<"sent", sd, Name(S1, Active(S1, sd))>>) EXCEPT !.pc = "switchWait"]
       ELSE Continue([S EXCEPT !.winner = Other(sd)])

\* the code after `await this.executeAttack(...)`
AfterAttack(S) ==
  LET victim == Other(S.cur.label)
  IN IF Hp(S, Active(S, victim)) <= 0 /\ S.winner = Null
       THEN SwitchPokemon(S, victim)
       ELSE Continue(S)

\* the same guard without the phase test
AcceptedWhileResolving(S) == S.winner = Null

\* if (this.phase !== 'select' || this.winner) return
Accepted(S) == S.phase = "select" /\ S.winner = Null

selectPlayerMove(S, moveId, rs) ==
  IF ~Accepted(S) THEN S
  ELSE
    LET moves == Def(S, S.player).moves
        mi == FindMove(moves, moveId)
        S1 == [S EXCEPT !.phase = "resolving",
                        !.lastCall = Returned("selectPlayerMove", mi # 0)]
        pf == Def(S, S.player).stats.speed >= Def(S, S.npc).stats.speed
        npcMoves == Def(S, S.npc).moves
        ni == FindMove(npcMoves, chooseMove(S, S.npc, S.player, rs[1]))
        nm == npcMoves[IF ni = 0 THEN 1 ELSE ni]
        S2 == [S1 EXCEPT !.playerMove = moves[mi], !.npcMove = nm, !.playerFirst = pf,
                         !.rngPos = 1, !.inFlight = @ + 1]
    IN IF mi = 0 THEN S1
       ELSE IF pf THEN ExecStart(S2, S.player, S.npc, moves[mi], "player", 1, rs[2])
                  ELSE ExecStart(S2, S.npc, S.player, nm, "npc", 1, rs[2])

\* the second attack, after the 800 ms
GapWait(S, rs) ==
  IF S.playerFirst
    THEN ExecStart(S, S.npc, S.player, S.npcMove, "npc", 2, rs[1])
    ELSE ExecStart(S, S.player, S.npc, S.playerMove, "player", 2, rs[1])

\* after the 500 ms of a decided battle
EndWait(S) ==
  Return([Push(S, <<IF S.winner = "player" THEN "battle-won" ELSE "battle-lost">>)
            EXCEPT !.phase = "ended"])

\* after the 500 ms of the damage: the effect, and 400 ms more if it logged
DmgWait(S, rs) ==
  LET R == ResolveEffect(S, rs)
  IN IF HasEffect(S.cur.move)
       THEN (IF R.logged THEN [R.state EXCEPT !.pc = "effMsgWait"]
                         ELSE AfterAttack(FaintCheck(R.state)))
       ELSE AfterAttack(FaintCheck(S))

(***************************************************************************)
(* Actions of the store.                                                   *)
(***************************************************************************)
\* the draws the effect of a move reads: its chance, and a sleep duration
EffectDraws(move) ==
  IF ~HasEffect(move) THEN 0
  ELSE IF move.effect.type = "status-condition" /\ move.effect.condition = "sleep" THEN 2
  ELSE 1

SelectPlayerMove ==
  /\ turn + battles <= MaxTurn + 1
  /\ \E moveId \in MoveIds :
       \E rs \in Draws(seed, 0, IF Accepted(State) /\ FindMove(Def(State, player).moves, moveId) # 0
                                 THEN 2 ELSE 0) :
         Commit(selectPlayerMove(State, moveId, rs))

ResumeMiss == pc = "missWait" /\ Commit(AfterAttack(State))
ResumeHit ==
  /\ pc = "hitWait"
  /\ \E rs \in Draws(seed, rngPos, IF IsStatusMove(cur.move) THEN EffectDraws(cur.move) ELSE 0) :
       Commit(HitWait(State, rs))
ResumeStatus == pc = "statusWait" /\ Commit(AfterAttack(State))
ResumeEffectiveness ==
  pc = "effWait" /\ \E rs \in Draws(seed, rngPos, 1) : Commit(EffWait(State, rs))
ResumeDamage ==
  /\ pc = "dmgWait"
  /\ \E rs \in Draws(seed, rngPos, EffectDraws(cur.move)) : Commit(DmgWait(State, rs))
ResumeEffectMessage == pc = "effMsgWait" /\ Commit(AfterAttack(FaintCheck(State)))
ResumeSwitch == pc = "switchWait" /\ Commit(Continue(State))
ResumeGap == pc = "gapWait" /\ \E rs \in Draws(seed, rngPos, 1) : Commit(GapWait(State, rs))
ResumeEnd == pc = "endWait" /\ Commit(EndWait(State))

(***************************************************************************)
(* Handlers of the battle screen (BattleScreen.vue) that write the store.  *)
(***************************************************************************)
handleSwitchPokemon(S, pokemonIndex) ==
  LET exists == pokemonIndex < Len(S.playerTeam)
      newPokemon == S.playerTeam[pokemonIndex + 1]
  IN IF ~exists \/ Hp(S, newPokemon) = 0
       THEN Push(S, <<"cannot-use">>)
     ELSE IF Def(S, newPokemon).name = Def(S, S.player).name
       THEN Push(S, <<"already-in-battle", Name(S, newPokemon)>>)
     ELSE Push(Push([S EXCEPT !.currentPlayerIndex = pokemonIndex, !.player = newPokemon],
                    <<"come-back", Name(S, S.player)>>),
               <<"sent", "player", Name(S, newPokemon)>>)

HandleSwitchPokemon ==
  /\ uiOps < MaxUiOps /\ battles < MaxBattles
  /\ \E pokemonIndex \in 0..(MaxTeam - 1) :
       Commit([handleSwitchPokemon(State, pokemonIndex) EXCEPT !.uiOps = @ + 1])

\* handleRun: a trainer battle refuses, a wild battle draws Math.random() > 0.5
handleRun(S, trainer, canRun) ==
  IF trainer THEN Push(S, <<"no-escape-trainer">>)
  ELSE IF canRun THEN Push(S, <<"escaped">>)
  ELSE Push(S, <<"no-escape">>)

\* props.trainer is set exactly when the opponent roster comes from a trainer
isTrainerBattle == Len(npcTeam) > 1

HandleRun ==
  /\ uiOps < MaxUiOps /\ battles < MaxBattles
  /\ \E canRun \in (IF isTrainerBattle THEN {FALSE} ELSE BOOLEAN) :
       Commit([handleRun(State, isTrainerBattle, canRun) EXCEPT !.uiOps = @ + 1])

Next ==
  \/ StartBattle
  \/ StartBattleWithCustomTeam
  \/ EndBattle
  \/ SelectPlayerMove
  \/ ResumeMiss
  \/ ResumeHit
  \/ ResumeStatus
  \/ ResumeEffectiveness
  \/ ResumeDamage
  \/ ResumeEffectMessage
  \/ ResumeSwitch
  \/ ResumeGap
  \/ ResumeEnd
  \/ HandleSwitchPokemon
  \/ HandleRun

Spec == Init /\ [][Next]_vars

(***************************************************************************)
(* resolveTurn (engine/resolveTurn.ts): one synchronous turn on a          *)
(* BattleState, with the rng handed in by the caller.  `k` counts the      *)
(* draws taken from the stream rs.                                         *)
(***************************************************************************)
RtMaxDraws == 2 * (2 + MaxDraws) + 1

\* resolveTurn.ts 74-87: the effect of a move that hit, on X = [s: state, k: draws]
rtEffect(X, attacker, defender, move, rs) ==
  [s |-> [X.s EXCEPT !.heap =
            applyMoveEffect(X.s, move.effect, attacker, defender,
                            <<rs[X.k + 1], rs[X.k + 2]>>).heap],
   k |-> X.k + applyMoveEffect(X.s, move.effect, attacker, defender,
                               <<rs[X.k + 1], rs[X.k + 2]>>).draws]

\* resolveTurn.ts 53-71: the damage of a damaging move that hit
rtDamage(X, attacker, defender, move, rs) ==
  [s |-> [X.s EXCEPT !.heap[defender].currentHp =
            ApplyDamage(@, DamageOf(X.s, attacker, defender, move, rs[X.k + 1]))],
   k |-> X.k + 1]

\* what a hit does: damage unless it is a status move, then the effect if any
rtHit(X, attacker, defender, move, rs) ==
  IF IsStatusMove(move)
    THEN (IF HasEffect(move) THEN rtEffect(X, attacker, defender, move, rs) ELSE X)
    ELSE (IF HasEffect(move)
            THEN rtEffect(rtDamage(X, attacker, defender, move, rs),
                          attacker, defender, move, rs)
            ELSE rtDamage(X, attacker, defender, move, rs))

\* the inner executeAttack (resolveTurn.ts 32-99)
rtExecuteAttack(X, attacker, defender, move, rs) ==
  IF Hit(move, rs[X.k + 1])
    THEN rtHit([X EXCEPT !.k = @ + 1], attacker, defender, move, rs)
    ELSE [X EXCEPT !.k = @ + 1]

\* the opponent's move: the AI's choice if an AI is given, else the first move
rtNpcMove(X, withAi, rs) ==
  LET npcMoves == Def(X.s, X.s.npc).moves
      npcMoveId == IF withAi THEN chooseMove(X.s, X.s.npc, X.s.player, rs[X.k + 1])
                             ELSE npcMoves[1].id
      ni == FindMove(npcMoves, npcMoveId)
  IN npcMoves[IF ni = 0 THEN 1 ELSE ni]

rtNpcAttack(X, withAi, rs) ==
  IF Len(Def(X.s, X.s.npc).moves) > 0
    THEN rtExecuteAttack([X EXCEPT !.k = @ + (IF withAi THEN 1 ELSE 0)],
                         X.s.npc, X.s.player, rtNpcMove(X, withAi, rs), rs)
    ELSE X

\* resolveTurn.ts 101-108: the player first, the opponent if it still stands
rtSecondNpc(X, withAi, rs) ==
  IF Hp(X.s, X.s.npc) > 0 THEN rtNpcAttack(X, withAi, rs) ELSE X

\* resolveTurn.ts 109-119: the opponent first, the player if it still stands
rtSecondPlayer(X, playerMove0, rs) ==
  IF Hp(X.s, X.s.player) > 0
    THEN rtExecuteAttack(X, X.s.player, X.s.npc, playerMove0, rs) ELSE X

\* resolveTurn.ts 121-126
rtFinish(R) ==
  LET win == IF Hp(R, R.npc) <= 0 THEN "player"
             ELSE IF Hp(R, R.player) <= 0 THEN "npc" ELSE R.winner
  IN [R EXCEPT !.lastCall = Returned("resolveTurn", TRUE), !.winner = win, !.turn = @ + 1,
               !.phase = IF win # Null THEN "ended" ELSE "select"]

resolveTurn(S, playerMoveId, rs, withAi) ==
  LET moves == Def(S, S.player).moves
      mi == FindMove(moves, playerMoveId)
      playerFirstRt == Def(S, S.player).stats.speed >= Def(S, S.npc).stats.speed
      X0 == [s |-> S, k |-> 0]
  IN IF mi = 0 THEN [S EXCEPT !.lastCall = Returned("resolveTurn", FALSE)]
     ELSE IF playerFirstRt
       THEN rtFinish(rtSecondNpc(rtExecuteAttack(X0, S.player, S.npc, moves[mi], rs),
                                 withAi, rs).s)
       ELSE rtFinish(rtSecondPlayer(rtNpcAttack(X0, withAi, rs), moves[mi], rs).s)

\* the values the caller's rng yields; a call that returns at once draws none
RtDraws(known) ==
  IF known THEN [1..RtMaxDraws -> RngVals] ELSE {[i \in 1..RtMaxDraws |-> 0]}

ResolveTurn ==
  /\ turn + battles <= MaxTurn + 1
  /\ \E playerMoveId \in MoveIds, withAi \in BOOLEAN :
       \E rs \in RtDraws(FindMove(Def(State, player).moves, playerMoveId) # 0) :
         Commit(resolveTurn(State, playerMoveId, rs, withAi))

\* the engine run on the states the store can be in between two turns
\* the battle state resolveTurn is handed: that of a store's first battle; the
\* store's seed is not read by resolveTurn, whose rng is the caller's
StartBattleRT ==
  /\ battles = 0
  /\ \E m \in Matchups, leadIsCopy \in BOOLEAN :
       Commit(Started(State, startBattle(State, m[1], m[2], NoSeed, leadIsCopy)))

NextRT ==
  \/ StartBattleRT
  \/ HandleSwitchPokemon
  \/ ResolveTurn

SpecRT == Init /\ [][NextRT]_vars

(***************************************************************************)
(* Properties of the battle store and of resolveTurn.                      *)
(***************************************************************************)
AllDraws == [1..MaxDraws -> RngVals]

\* every creature object the battle state refers to
Refs(S) == {S.player, S.npc} \cup {S.playerTeam[i] : i \in 1..Len(S.playerTeam)}
             \cup {S.npcTeam[i] : i \in 1..Len(S.npcTeam)}

LogHas(entry) == \E i \in 1..Len(log) : log[i] = entry

C2_LoserAllFainted ==
  \A sd \in Sides :
    winner = sd =>
      \A i \in 1..Len(Team(State, Other(sd))) :
        Hp(State, Team(State, Other(sd))[i]) = 0

\* C3: every creature of the battle state has 0 <= currentHp <= stats.hp.
C3_HpInRange ==
  \A r \in Refs(State) : 0 <= Hp(State, r) /\ Hp(State, r) <= Def(State, r).stats.hp

\* a damage larger than the remaining HP was subtracted: the defender was hit
\* for 4 twice and stands at 0 of 5
C3_Witness ==
  /\ pc = "dmgWait"
  /\ Hp(State, cur.defender) = 0
  /\ Def(State, cur.defender).stats.hp = 5
  /\ log[Len(log)] = <<"damage", Name(State, cur.defender), 4>>

\* C4: once phase is ended, selectPlayerMove, a manual switch and a run attempt
\* leave turn, HP, the active creatures and indices, winner and log unchanged
\* (a step that keeps phase ended is one of these three).
C4_EndedIsTerminal ==
  [][(phase = "ended" /\ phase' = "ended") => UNCHANGED battleState]_vars

\* C5: turn is 1 at the start of a battle, grows by exactly 1 when a resolved
\* turn ends with no winner and stays as it is when the turn ends with a winner.
C5_TurnCounter ==
  [][/\ (turn' # turn => turn' = turn + 1 \/ turn' = 1)
     /\ ((winner = Null /\ winner' # Null) => turn' = turn)]_vars

\* C6: a call of selectPlayerMove or resolveTurn with a move id that is not
\* among the active creature's moves raises an error.
C6_UnknownMoveThrows == (lastCall.op # "none" /\ ~lastCall.moveKnown) => lastCall.threw

C8_AccuracyZeroHits == pc = "missWait" => cur.move.accuracy # 0

\* the suspension points of executeAttack
AttackPcs == {"missWait", "hitWait", "statusWait", "effWait", "dmgWait", "effMsgWait"}

\* C9: while an attack with a move of category status or of power 0 runs, no
\* creature's currentHp changes, the defender's and the attacker's included.
C9_StatusMoveKeepsHp ==
  [][(/\ pc \in AttackPcs
      /\ (cur.move.category = "status" \/ cur.move.power = 0))
     => \A o \in ObjIds : heap'[o].currentHp = heap[o].currentHp]_vars

\* a move of power 0 whose category is not status has resolved its effect
C9_Witness ==
  /\ pc = "statusWait"
  /\ cur.move.power = 0 /\ cur.move.category # "status"
  /\ heap[cur.attacker].statStages.atk = 1

Acc100Damaging(m) ==
  m.accuracy = 100 /\ m.power > 0 /\ m.category \in {"physical", "special"}

\* the step that computes and subtracts the damage
DamageStep == pc = "effWait" /\ pc' = "dmgWait"

\* the step that ends an attack that did damage
AttackEnds == \/ pc = "dmgWait" /\ pc' \notin {"dmgWait", "effMsgWait"}
              \/ pc = "effMsgWait" /\ pc' # "effMsgWait"

FaintAppended ==
  \E i \in (Len(log) + 1)..Len(log') : log'[i] = <<"faint", Name(State, cur.defender)>>

\* C10 as stated: a defender at currentHp 1 hit by a damaging move of accuracy
\* 100 is at currentHp 0 after the damage, whatever the type matchup.
C10_OneHpFaints ==
  [][(DamageStep /\ Acc100Damaging(cur.move) /\ Hp(State, cur.defender) = 1)
     => heap'[cur.defender].currentHp = 0]_vars

\* C10 amended: with a type multiplier of at least 1 the defender at currentHp 1
\* is at currentHp 0 after the damage, and the attack ends by appending the
\* defender's faint entry to the log.
C10_OneHpFaintsUnlessResisted ==
  [][/\ (/\ DamageStep /\ Acc100Damaging(cur.move) /\ Hp(State, cur.defender) = 1
         /\ computeTypeMultiplier(cur.move.type, Def(State, cur.defender).types) >= 4)
        => heap'[cur.defender].currentHp = 0
     /\ (AttackEnds /\ Acc100Damaging(cur.move) /\ Hp(State, cur.defender) = 0)
        => FaintAppended]_vars

\* pika, hit for 4 of its 5 HP before, was hit again and its faint is logged
C10_Witness ==
  /\ Cardinality({i \in 1..Len(log) : log[i] = <<"damage", "pika", 4>>}) = 2
  /\ \E i \in 2..(Len(log) - 1) :
       /\ log[i - 1] \in {<<"used", "squi", Bubble.id>>, <<"used", "squi", Tackle.id>>}
       /\ log[i] = <<"damage", "pika", 4>>
       /\ log[i + 1] = <<"faint", "pika">>

\* the roster pairs with an empty side
EmptyMatchups == {m \in Matchups : m[1] = << >> \/ m[2] = << >>}

\* C11: startBattle with an empty player roster or an empty opponent roster
\* throws and leaves every field of the battle state as it was, in every
\* reachable state of the store (before a battle, during one, after one).
C11_EmptyRosterRejected ==
  \A m \in EmptyMatchups, sd \in Seeds \cup {NoSeed}, leadIsCopy \in BOOLEAN :
    LET R == startBattle(State, m[1], m[2], sd, leadIsCopy)
    IN /\ R.lastCall = Threw("startBattle")
       /\ [R EXCEPT !.lastCall = lastCall] = State

\* startBattle has thrown over a battle that had been played
C11_Witness ==
  /\ lastCall = Threw("startBattle")
  /\ playerTeam # << >>
  /\ log # << >>

\* C12: no battle is in Select with a lead creature that has no moves: a start
\* whose lead has an empty move list is rejected.
C12_LeadHasMoves ==
  (playerTeam # << >> /\ phase = "select") => Len(Def(State, playerTeam[1]).moves) > 0

\* C13: the creatures of the rosters handed to startBattle, and those of the
\* team store, are never written: each keeps the currentHp (and stat stages and
\* status) it had before the battle; its stats, types and moves are those of
\* its definition throughout.
C13_SourceRosterUntouched ==
  \A o \in SourceIds : heap[o] = SourceCreature(SourceSpecies[o[2]])

\* a battle in which the clones of both leads have been written: the player's
\* lead was set to full HP and then hit, the opponent's lead was hit
C13_Witness ==
  /\ playerTeam # << >>
  /\ heap[playerTeam[1]].species = "pika"
  /\ heap[playerTeam[1]].currentHp \notin {heap[Source("pika")].currentHp,
                                           Definition("pika").stats.hp}
  /\ heap[npcTeam[1]].species = "squi"
  /\ heap[npcTeam[1]].currentHp < heap[Source("squi")].currentHp

\* a step in which startBattle or startBattleWithCustomTeam completes
StartCompletes == battles' = battles + 1

\* C14: right after startBattle or startBattleWithCustomTeam completes, over
\* whatever the store held before, turn is 1, phase is select, there is no
\* winner, the log is empty, and every creature of both teams is at
\* currentHp = stats.hp.
C14_FreshSession ==
  [][StartCompletes =>
       /\ turn' = 1
       /\ phase' = "select"
       /\ winner' = Null
       /\ log' = << >>
       /\ \A i \in 1..Len(playerTeam') :
            heap'[playerTeam'[i]].currentHp
              = Definition(heap'[playerTeam'[i]].species).stats.hp
       /\ \A i \in 1..Len(npcTeam') :
            heap'[npcTeam'[i]].currentHp
              = Definition(heap'[npcTeam'[i]].species).stats.hp]_vars

\* a second battle has just been started over one that was played: the active
\* creature's object still carries a stat stage of the earlier battle
C14_Witness ==
  /\ battles = 2
  /\ lastCall.op \in {"startBattle", "startBattleWithCustomTeam"}
  /\ ~lastCall.threw
  /\ log = << >>
  /\ turn = 1
  /\ phase = "select"
  /\ heap[npc].statStages # DEFAULT_STAT_STAGES

\* STAGE_MULTIPLIERS (models/teamBuilder.ts): the table of the multipliers of
\* a stat stage, each as numerator and denominator; no entry outside -6..6
NoEntry == << >>

STAGE_MULTIPLIERS(stage) ==
  CASE stage = -6 -> <<2, 8>> [] stage = -5 -> <<2, 7>> [] stage = -4 -> <<2, 6>>
    [] stage = -3 -> <<2, 5>> [] stage = -2 -> <<2, 4>> [] stage = -1 -> <<2, 3>>
    [] stage = 0 -> <<1, 1>>
    [] stage = 1 -> <<3, 2>> [] stage = 2 -> <<4, 2>> [] stage = 3 -> <<5, 2>>
    [] stage = 4 -> <<6, 2>> [] stage = 5 -> <<7, 2>> [] stage = 6 -> <<8, 2>>
    [] OTHER -> NoEntry

\* ACCURACY_EVASION_MULTIPLIERS: the table for accuracy and evasion
ACCURACY_EVASION_MULTIPLIERS(stage) ==
  CASE stage = -6 -> <<3, 9>> [] stage = -5 -> <<3, 8>> [] stage = -4 -> <<3, 7>>
    [] stage = -3 -> <<3, 6>> [] stage = -2 -> <<3, 5>> [] stage = -1 -> <<3, 4>>
    [] stage = 0 -> <<1, 1>>
    [] stage = 1 -> <<4, 3>> [] stage = 2 -> <<5, 3>> [] stage = 3 -> <<6, 3>>
    [] stage = 4 -> <<7, 3>> [] stage = 5 -> <<8, 3>> [] stage = 6 -> <<9, 3>>
    [] OTHER -> NoEntry

\* getStageMultiplier(stage, isAccuracyEvasion): the stage is clamped to
\* [-6, 6], then looked up; a missing entry gives 1
\* the table of the standard stats looked up for every stat
getStageMultiplierOneTable(stage, isAccuracyEvasion) ==
  LET clampedStage == Max(MinStage, Min(MaxStage, stage))
      entry == STAGE_MULTIPLIERS(clampedStage)
  IN IF entry = NoEntry THEN <<1, 1>> ELSE entry

getStageMultiplier(stage, isAccuracyEvasion) ==
  LET clampedStage == Max(MinStage, Min(MaxStage, stage))
      entry == IF isAccuracyEvasion THEN ACCURACY_EVASION_MULTIPLIERS(clampedStage)
               ELSE STAGE_MULTIPLIERS(clampedStage)
  IN IF entry = NoEntry THEN <<1, 1>> ELSE entry

\* effective speed of creature r as a fraction: base speed times the
\* multiplier of its speed stage, halved when it is paralysed
EffSpeedNum(r) == Def(State, r).stats.speed * STAGE_MULTIPLIERS(heap[r].statStages["speed"])[1]
EffSpeedDen(r) ==
  STAGE_MULTIPLIERS(heap[r].statStages["speed"])[2]
    * (IF heap[r].status.condition = "paralysis" THEN 2 ELSE 1)
Faster(a, b) == EffSpeedNum(a) * EffSpeedDen(b) > EffSpeedNum(b) * EffSpeedDen(a)

\* C15: the creature that makes the first attack of a turn is never the one
\* with the strictly lower effective speed (read when the first attack has
\* made its accuracy roll and nothing else yet).
C15_FasterActsFirst ==
  (pc \in {"missWait", "hitWait"} /\ cur.nth = 1) => ~Faster(cur.defender, cur.attacker)

\* creature r cannot act whatever is drawn: asleep with turns remaining, or frozen
CannotAct(r) ==
  \/ heap[r].status.condition = "sleep" /\ heap[r].status.turnsRemaining > 0
  \/ heap[r].status.condition = "freeze"

\* C16: a creature that is asleep with turns remaining, or frozen, makes no
\* accuracy roll: no attack of such a creature is past its roll.
C16_PreventedMakesNoRoll ==
  pc \in {"missWait", "hitWait"} => ~CannotAct(cur.attacker)

\* calculateStatusDamage (models/statusCondition.ts): the end-of-turn damage
\* of a status condition
\* the damage of bad poison without its counter
calculateStatusDamageFlat(maxHp, condition, poisonCounter) ==
  CASE condition = "poison" -> maxHp \div 8
    [] condition = "burn" -> maxHp \div 16
    [] condition = "badly-poisoned" -> maxHp \div 16
    [] OTHER -> 0

calculateStatusDamage(maxHp, condition, poisonCounter) ==
  CASE condition = "poison" -> maxHp \div 8
    [] condition = "burn" -> maxHp \div 16
    [] condition = "badly-poisoned" -> (maxHp * poisonCounter) \div 16
    [] OTHER -> 0

\* the most HP creature c of definition d can have once its status damage was
\* taken at least once
HpAfterStatusDamage(c, d) ==
  Max(0, d.stats.hp - calculateStatusDamage(d.stats.hp, c.status.condition, 1))

\* C17: when a turn ends with no winner (turn grows, phase returns to select),
\* each active creature that is poisoned or burned has taken its end-of-turn
\* damage: its currentHp is at most maxHp - floor(maxHp/8) (poison) or
\* maxHp - floor(maxHp/16) (burn).
C17_EndOfTurnStatusDamage ==
  [][turn' = turn + 1 =>
       /\ heap'[player'].currentHp
            <= HpAfterStatusDamage(heap'[player'], Definition(heap'[player'].species))
       /\ heap'[npc'].currentHp
            <= HpAfterStatusDamage(heap'[npc'], Definition(heap'[npc'].species))]_vars

\* the effect of the move being executed is one that resolves (chance 100) and
\* is refused: the status cannot be applied to a target that has a status or
\* is immune by type, the stage cannot move past its cap
EffectTarget == IF cur.move.effect.target = "self" THEN cur.attacker ELSE cur.defender
EffectRefused ==
  /\ HasEffect(cur.move)
  /\ cur.move.effect.chance = 100
  /\ \/ /\ cur.move.effect.type = "status-condition"
        /\ \/ heap[EffectTarget].status.condition # "none"
           \/ isImmuneToStatus(Def(State, EffectTarget).types, cur.move.effect.condition)
     \/ /\ cur.move.effect.type = "stat-change"
        /\ applyStageChange(heap[EffectTarget].statStages[cur.move.effect.stat],
                            cur.move.effect.stages)
             = heap[EffectTarget].statStages[cur.move.effect.stat]

\* the step of an attack in which the effect of the move is resolved
EffectStep ==
  \/ pc = "hitWait" /\ pc' = "statusWait"
  \/ pc = "dmgWait" /\ pc' # "dmgWait"

\* C18: when the effect of a move that hit is resolved and refused, the step
\* appends a log entry for that outcome and changes no stage, status or HP.
C18_RefusedEffectIsLogged ==
  [][(EffectStep /\ EffectRefused) =>
       /\ \E i \in (Len(log) + 1)..Len(log') : log'[i][1] \in {"status-failed", "stat-limit"}
       /\ heap' = heap]_vars

\* a step that shows an effect being resolved: a stat stage or a status of
\* some creature changes, or an entry about an effect is appended to the log
EffectMessages == {"stat-changed", "status-applied", "status-failed", "stat-limit"}
EffectShows ==
  \/ \E o \in HeapIds : \/ heap'[o].statStages # heap[o].statStages
                        \/ heap'[o].status # heap[o].status
  \/ \E i \in (Len(log) + 1)..Len(log') : log'[i][1] \in EffectMessages

\* C19: while a turn is resolved, an effect is resolved only in the step after
\* the announcement of a status move that hit, or in the step after the damage
\* of a damaging move; that step is entered only through the step that
\* subtracts the damage and logs it; and the step after a miss changes no
\* creature and consumes no draw.
C19_EffectAfterHitAndDamage ==
  [][/\ ((pc # "idle" \/ pc' # "idle") /\ EffectShows)
          => \/ pc = "hitWait" /\ IsStatusMove(cur.move)
             \/ pc = "dmgWait"
     /\ (pc' = "dmgWait" /\ pc # "dmgWait")
          => /\ pc = "effWait"
             /\ log'[Len(log')][1] = "damage"
             /\ heap'[cur.defender].currentHp
                  = Max(0, heap[cur.defender].currentHp - log'[Len(log')][3])
     /\ (pc = "missWait" /\ pc' # "missWait")
          => /\ heap' = heap
             /\ rngPos' \in {rngPos, 0}
             /\ \A i \in (Len(log) + 1)..Len(log') : log'[i][1] \notin EffectMessages]_vars

\* a turn has ended with the miss of a creature whose moves all carry an
\* effect, and the opponent has no status and no changed stage
C19_Witness ==
  /\ pc = "idle"
  /\ turn = 2
  /\ log # << >>
  /\ log[Len(log)] = <<"miss", "ekan">>
  /\ heap[npc].status = NoStatus
  /\ heap[npc].statStages = DEFAULT_STAT_STAGES

\* C20: while a selectPlayerMove is suspended, a step of any other operation
\* (one that is not a resumption of the resolution: it leaves the resolution
\* where it is) changes none of the active creatures, the active indices, the
\* HP, the phase and the winner.
C20_ResolutionAtomic ==
  [][(inFlight > 0 /\ pc # "idle" /\ pc' = pc)
       => UNCHANGED <<player, npc, currentPlayerIndex, currentNpcIndex, phase, winner, heap>>]_vars

\* C21: the move of every attack being executed is one of the moves of the
\* creature that executes it.
C21_MoveBelongsToAttacker ==
  pc \in AttackPcs =>
    \E i \in 1..Len(Def(State, cur.attacker).moves) :
      Def(State, cur.attacker).moves[i] = cur.move

\* a step in which the active creature of side sd is replaced by a teammate
\* (an automatic or a manual switch; the teams stay as they are)
SwitchOut(sd) ==
  /\ playerTeam # << >>
  /\ playerTeam' = playerTeam
  /\ npcTeam' = npcTeam
  /\ IF sd = "player" THEN player' # player ELSE npc' # npc

\* C22: when a creature leaves the active slot, all its stat stages are 0
\* afterwards.
C22_StagesResetOnSwitchOut ==
  [][/\ SwitchOut("player") => heap'[player].statStages = DEFAULT_STAT_STAGES
     /\ SwitchOut("npc") => heap'[npc].statStages = DEFAULT_STAT_STAGES]_vars

(***************************************************************************)
(* The pure functions of the battle domain, each called once on arguments  *)
(* drawn from bounded sets: fn holds the call, and after the call its      *)
(* result.  Multipliers are numerator-denominator pairs.                   *)
(***************************************************************************)
Levels == {1, 5, 50}
Powers == {1, 40, 90}
StatValues == {1, 10, 80, 100}
Mult4s == {0, 1, 2, 4, 8, 16}
MaxStatusHp == 40
MaxCounter == 4
MaxDelta == 13
StageSlack == 2

Conditions == {"paralysis", "sleep", "poison", "burn", "freeze", "badly-poisoned"}
TypeSpellings ==
  {"Fire", "fire", "FIRE", "fIRE", "Electric", "electric", "ELECTRIC", "Poison", "POISON",
   "Steel", "steel", "Ice", "ICE", "Grass", "grass", "Water"}
TypeLists == {<<a>> : a \in TypeSpellings} \cup {<<a, b>> : a, b \in TypeSpellings}

Call(op, args) == [op |-> op, args |-> args, done |-> FALSE, result |-> NullValue]

FnCalls ==
  {Call("calculateDamage", <<l, p, a, d, m, r>>) :
     l \in Levels, p \in Powers, a \in StatValues, d \in StatValues, m \in Mult4s, r \in RngVals}
  \cup {Call("calculateStatusDamage", <<h, c, k>>) :
          h \in 1..MaxStatusHp, c \in Conditions, k \in 1..MaxCounter}
  \cup {Call("isImmuneToStatus", <<ts, c>>) : ts \in TypeLists, c \in Conditions}
  \cup {Call("applyStageChange", <<s, d>>) : s \in MinStage..MaxStage, d \in -MaxDelta..MaxDelta}
  \cup {Call("getStageMultiplier", <<s, b>>) :
          s \in (MinStage - StageSlack)..(MaxStage + StageSlack), b \in BOOLEAN}

InitFn ==
  /\ StoreInit
  /\ fn \in FnCalls
  /\ teamRoster = << >>
  /\ localStorage = NoItem
  /\ teamCall = NoTeamCall
  /\ NetInit

Returns(op, value) ==
  /\ fn.op = op
  /\ ~fn.done
  /\ fn' = [fn EXCEPT !.done = TRUE, !.result = value]
  /\ UNCHANGED <<storeVars, teamRoster, localStorage, teamCall, netVars>>

CallCalculateDamage ==
  /\ fn.op = "calculateDamage"
  /\ Returns("calculateDamage",
            calculateDamage(fn.args[1], fn.args[2], fn.args[3], fn.args[4], fn.args[5], fn.args[6]))

CallCalculateStatusDamage ==
  /\ fn.op = "calculateStatusDamage"
  /\ Returns("calculateStatusDamage", calculateStatusDamage(fn.args[1], fn.args[2], fn.args[3]))

CallIsImmuneToStatus ==
  /\ fn.op = "isImmuneToStatus"
  /\ Returns("isImmuneToStatus", isImmuneToStatus(fn.args[1], fn.args[2]))

CallApplyStageChange ==
  /\ fn.op = "applyStageChange"
  /\ Returns("applyStageChange", applyStageChange(fn.args[1], fn.args[2]))

CallGetStageMultiplier ==
  /\ fn.op = "getStageMultiplier"
  /\ Returns("getStageMultiplier", getStageMultiplier(fn.args[1], fn.args[2]))

NextFn ==
  \/ CallCalculateDamage
  \/ CallCalculateStatusDamage
  \/ CallIsImmuneToStatus
  \/ CallApplyStageChange
  \/ CallGetStageMultiplier

SpecFn == InitFn /\ [][NextFn]_vars

FnDone(op) == fn.op = op /\ fn.done

\* C23: with level, type multiplier and random roll fixed, the damage does not
\* decrease when the power or the attacking stat grows, does not increase
\* when the defending stat grows, and is never negative.
C23_DamageMonotone ==
  FnDone("calculateDamage") =>
    LET l == fn.args[1]
        p == fn.args[2]
        a == fn.args[3]
        d == fn.args[4]
        m == fn.args[5]
        r == fn.args[6]
    IN /\ fn.result >= 0
       /\ \A p2 \in Powers : p2 >= p => calculateDamage(l, p2, a, d, m, r) >= fn.result
       /\ \A a2 \in StatValues : a2 >= a => calculateDamage(l, p, a2, d, m, r) >= fn.result
       /\ \A d2 \in StatValues : d2 >= d => calculateDamage(l, p, a, d2, m, r) <= fn.result

C23_Witness ==
  /\ FnDone("calculateDamage")
  /\ fn.args = <<50, 40, 10, 10, 4, 0>>
  /\ calculateDamage(50, 90, 10, 10, 4, 0) > fn.result
  /\ calculateDamage(50, 40, 10, 80, 4, 0) < fn.result

\* the base term as the specification writes it: two nested floors, on the
\* level factor floor(2 * level / 5 + 2)
NestedFloorBase(l, p, a, d) ==
  LET lf == ((2 * l) \div 5) + 2
  IN (((lf * p * a) \div Max(1, d)) \div 50) + 2

\* C24: for positive integer inputs the base term of the damage equals
\* floor(floor(levelFactor * power * atk / max(1, def)) / 50) + 2, the damage
\* is the floor of that base times multiplier and roll, and level 50, atk
\* 100, power 90, def 80, multiplier 2 and the lowest roll give 86.
C24_BaseTermNestedFloors ==
  FnDone("calculateDamage") =>
    LET l == fn.args[1]
        p == fn.args[2]
        a == fn.args[3]
        d == fn.args[4]
        m == fn.args[5]
        r == fn.args[6]
        nested == NestedFloorBase(l, p, a, d)
    IN /\ baseDamage(l, p, a, d) = nested
       /\ fn.result = (nested * m * (85 * RngDen + 15 * r)) \div (4 * 100 * RngDen)
       /\ fn.args = <<50, 90, 100, 80, 8, 0>> => fn.result = 86

C24_Witness ==
  /\ FnDone("calculateDamage")
  /\ fn.args = <<50, 90, 100, 80, 8, 0>>
  /\ fn.result = 86

\* the damage of the tick after the one that was computed
NextTickDamage == calculateStatusDamage(fn.args[1], fn.args[2], fn.args[3] + 1)

ImmuneTypeNames(condition) ==
  CASE condition = "paralysis" -> {"Electric"}
    [] condition \in {"poison", "badly-poisoned"} -> {"Poison", "Steel"}
    [] condition = "burn" -> {"Fire"}
    [] condition = "freeze" -> {"Ice"}
    [] OTHER -> {}

\* the spellings of a type name in any letter case
Spellings(name) ==
  CASE name = "Electric" -> {"Electric", "electric", "ELECTRIC"}
    [] name = "Poison" -> {"Poison", "poison", "POISON"}
    [] name = "Steel" -> {"Steel", "steel", "STEEL"}
    [] name = "Fire" -> {"Fire", "fire", "FIRE", "fIRE"}
    [] name = "Ice" -> {"Ice", "ice", "ICE"}
    [] OTHER -> {name}

\* C26: a creature is immune to a condition exactly when one of its types,
\* in any letter case, is in the condition's immunity list; Fire is immune
\* to burn, Electric to paralysis, Grass is not immune to poison.
C26_ImmuneIffTypeListed ==
  FnDone("isImmuneToStatus") =>
    LET types == fn.args[1]
        condition == fn.args[2]
    IN /\ fn.result =
            (\E i \in 1..Len(types) : \E name \in ImmuneTypeNames(condition) :
               types[i] \in Spellings(name))
       /\ fn.args = <<<<"Fire">>, "burn">> => fn.result = TRUE
       /\ fn.args = <<<<"Electric">>, "paralysis">> => fn.result = TRUE
       /\ fn.args = <<<<"Grass">>, "poison">> => fn.result = FALSE

C26_Witness ==
  /\ FnDone("isImmuneToStatus")
  /\ fn.args = <<<<"Grass", "FIRE">>, "burn">>
  /\ fn.result = TRUE

\* C27: for a stage s in [-6, 6] and a delta, applyStageChange(s, delta) is in
\* [-6, 6], and is s + delta whenever s + delta is in [-6, 6].
C27_StageChangeClamped ==
  FnDone("applyStageChange") =>
    LET s == fn.args[1]
        delta == fn.args[2]
    IN /\ fn.result >= -6
       /\ fn.result <= 6
       /\ (s + delta >= -6 /\ s + delta <= 6) => fn.result = s + delta

C27_Witness ==
  /\ FnDone("applyStageChange")
  /\ fn.args = <<-5, -3>>
  /\ fn.result = -6

\* the multiplier of the specification's formula, as numerator and
\* denominator: (b + stage)/b for stage >= 0 and b/(b - stage) for stage < 0,
\* with b = 3 for accuracy and evasion and b = 2 for the other stats
FormulaMultiplier(stage, isAccuracyEvasion) ==
  LET b == IF isAccuracyEvasion THEN 3 ELSE 2
  IN IF stage >= 0 THEN <<b + stage, b>> ELSE <<b, b - stage>>

\* C28: for every stage in -6..6 getStageMultiplier is the ratio of the
\* formula, it is 1 at stage 0 for both tables, and the multiplier of the
\* next stage is strictly larger.
C28_MultiplierIsFormula ==
  (FnDone("getStageMultiplier") /\ fn.args[1] >= -6 /\ fn.args[1] <= 6) =>
    LET stage == fn.args[1]
        formula == FormulaMultiplier(stage, fn.args[2])
        next == getStageMultiplier(stage + 1, fn.args[2])
    IN /\ fn.result[1] * formula[2] = formula[1] * fn.result[2]
       /\ stage = 0 => fn.result[1] = fn.result[2]
       /\ stage < 6 => fn.result[1] * next[2] < next[1] * fn.result[2]

C28_Witness ==
  /\ FnDone("getStageMultiplier")
  /\ fn.args = <<-3, TRUE>>
  /\ fn.result = <<3, 6>>

(***************************************************************************)
(* The team store (stores/team.ts) and the item it keeps in localStorage   *)
(* (services/teamBuilder/teamCache.ts).  A roster is a sequence of team    *)
(* members [pokemon, selectedMoves, position], pokemon being the species   *)
(* id.  The item under the storage key is absent, a text that is no JSON,  *)
(* or the JSON of a value; the storage always has room for the item.       *)
(* Operations are the store's own, the handlers of TeamBuilderView and     *)
(* TeamRoster that edit and then save, a write of the storage key by       *)
(* anything else, and a fresh session: a new store whose view loads the    *)
(* team when it is mounted.                                                *)
(***************************************************************************)
MaxTeamOps == 4
MaxTeamSize == 6
MaxSelectedMoves == 4
CURRENT_SCHEMA_VERSION == 1

TeamMember(id, selectedMoves, position) ==
  [pokemon |-> id, selectedMoves |-> selectedMoves, position |-> position]

OneMove == <<"tackle">>
FourMoves == <<"tackle", "growl", "swift", "spark">>
FiveMoves == <<"tackle", "growl", "swift", "spark", "ember">>
MoveSelections == {<< >>, OneMove, FourMoves, FiveMoves}
CatalogIds == {4, 7, 25}

\* Array.prototype.splice(i, 1), splice(i, 0, x) and the reindexing loop,
\* positions counted from 0
RemoveAt(R, i) == SubSeq(R, 1, i) \o SubSeq(R, i + 2, Len(R))
InsertAt(R, i, x) == SubSeq(R, 1, i) \o <<x>> \o SubSeq(R, i + 1, Len(R))
Reindex(R) == [i \in 1..Len(R) |-> [R[i] EXCEPT !.position = i - 1]]

addPokemon(R, member) ==
  IF Len(R) >= MaxTeamSize THEN [valid |-> FALSE, roster |-> R]
  ELSE IF \E i \in 1..Len(R) : R[i].pokemon = member.pokemon THEN [valid |-> FALSE, roster |-> R]
  ELSE IF Len(member.selectedMoves) = 0 THEN [valid |-> FALSE, roster |-> R]
  ELSE IF Len(member.selectedMoves) > MaxSelectedMoves THEN [valid |-> FALSE, roster |-> R]
  ELSE [valid |-> TRUE, roster |-> Append(R, [member EXCEPT !.position = Len(R)])]

removePokemon(R, position) ==
  IF position < 0 \/ position >= Len(R) THEN R
  ELSE Reindex(RemoveAt(R, position))

reorderTeam(R, fromPosition, toPosition) ==
  IF \/ fromPosition < 0 \/ fromPosition >= Len(R)
     \/ toPosition < 0 \/ toPosition >= Len(R)
  THEN R
  ELSE Reindex(InsertAt(RemoveAt(R, fromPosition), toPosition, R[fromPosition + 1]))

\* JSON.stringify and JSON.parse: the item holds the value as JSON; a text
\* that is no JSON makes JSON.parse throw
Stringify(value) == [kind |-> "json", value |-> value]
Unparseable == [kind |-> "text"]
ParseThrows(item) == item.kind = "text"
Parse(item) == item.value

saveTeamToLocalStorage(team) == Stringify(team)

\* saveTeam: an empty roster is not saved
saveTeam(R, item) ==
  IF Len(R) = 0 THEN [success |-> FALSE, item |-> item]
  ELSE [success |-> TRUE,
        item |-> saveTeamToLocalStorage([members |-> R, version |-> CURRENT_SCHEMA_VERSION])]

\* validateTeam: size 1..6, the schema version, 1..4 moves per member, each
\* position equal to its index, no position twice
validateTeam(team) ==
  LET n == Len(team.members)
  IN /\ n # 0
     /\ ~(n > MaxTeamSize)
     /\ team.version = CURRENT_SCHEMA_VERSION
     /\ \A i \in 1..n :
          /\ Len(team.members[i].selectedMoves) # 0
          /\ ~(Len(team.members[i].selectedMoves) > MaxSelectedMoves)
          /\ team.members[i].position = i - 1
     /\ Cardinality({team.members[i].position : i \in 1..n}) = n

\* loadTeamFromLocalStorage: null when there is no item, when it is no JSON,
\* when reading the members throws, or when the team is not valid
loadTeamFromLocalStorage(item) ==
  IF item.kind = "none" THEN [found |-> FALSE]
  ELSE IF ParseThrows(item) THEN [found |-> FALSE]
  ELSE IF "members" \notin DOMAIN Parse(item) THEN [found |-> FALSE]
  ELSE IF ~validateTeam(Parse(item)) THEN [found |-> FALSE]
  ELSE [found |-> TRUE, team |-> Parse(item)]

loadTeam(R, item) ==
  LET team == loadTeamFromLocalStorage(item)
  IN IF ~team.found THEN R ELSE team.team.members

\* what the storage key can hold when anything but saveTeam wrote it
Stored(members, version) == Stringify([members |-> members, version |-> version])
SixMembers == [i \in 1..MaxTeamSize |-> TeamMember(100 + i, OneMove, i - 1)]
StorageContents ==
  { Unparseable,
    Stringify([version |-> CURRENT_SCHEMA_VERSION]),
    Stored(<< >>, CURRENT_SCHEMA_VERSION),
    Stored(<<TeamMember(25, OneMove, 0)>>, CURRENT_SCHEMA_VERSION + 1),
    Stored(<<TeamMember(25, OneMove, 0), TeamMember(25, FourMoves, 1)>>, CURRENT_SCHEMA_VERSION),
    Stored(<<TeamMember(25, OneMove, 0), TeamMember(7, OneMove, 0)>>, CURRENT_SCHEMA_VERSION),
    Stored(<<TeamMember(25, << >>, 0)>>, CURRENT_SCHEMA_VERSION),
    Stored(<<TeamMember(25, FiveMoves, 0)>>, CURRENT_SCHEMA_VERSION),
    Stored(SixMembers, CURRENT_SCHEMA_VERSION),
    Stored(Append(SixMembers, TeamMember(25, OneMove, MaxTeamSize)), CURRENT_SCHEMA_VERSION) }

InitTeam ==
  /\ StoreInit
  /\ fn = NoFn
  /\ teamRoster = << >>
  /\ localStorage = NoItem
  /\ teamCall = NoTeamCall
  /\ NetInit

TeamStep(op, R, item, ui) ==
  /\ teamCall.n < MaxTeamOps
  /\ teamRoster' = R
  /\ localStorage' = item
  /\ teamCall' = [op |-> op, n |-> teamCall.n + 1, uiOnly |-> teamCall.uiOnly /\ ui]
  /\ UNCHANGED <<storeVars, fn, netVars>>

Positions == -1..Len(teamRoster)
Shown == 0..(Len(teamRoster) - 1)

AddPokemon ==
  \E id \in CatalogIds, mv \in MoveSelections :
    TeamStep("addPokemon",
             addPokemon(teamRoster, TeamMember(id, mv, Len(teamRoster))).roster,
             localStorage, FALSE)

RemovePokemon ==
  \E p \in Positions : TeamStep("removePokemon", removePokemon(teamRoster, p), localStorage, FALSE)

ReorderTeam ==
  \E f \in Positions, t \in Positions :
    TeamStep("reorderTeam", reorderTeam(teamRoster, f, t), localStorage, FALSE)

ClearTeam == TeamStep("clearTeam", << >>, localStorage, FALSE)

SaveTeam == TeamStep("saveTeam", teamRoster, saveTeam(teamRoster, localStorage).item, FALSE)

LoadTeam == TeamStep("loadTeam", loadTeam(teamRoster, localStorage), localStorage, FALSE)

\* deleteTeam: clearTeamFromLocalStorage, then clearTeam
DeleteTeam == TeamStep("deleteTeam", << >>, NoItem, FALSE)

\* the storage key written by anything but saveTeam
SetItem == \E item \in StorageContents : TeamStep("setItem", teamRoster, item, FALSE)

\* handleAddToTeam (TeamBuilderView): the moves and the size are validated,
\* the member is added, and the team is saved when the store accepted it
HandleAddToTeam ==
  \E id \in CatalogIds, mv \in MoveSelections :
    LET added == addPokemon(teamRoster, TeamMember(id, mv, Len(teamRoster)))
        refused == \/ Len(mv) = 0
                   \/ Len(mv) > MaxSelectedMoves
                   \/ Len(teamRoster) >= MaxTeamSize
    IN IF refused \/ ~added.valid
       THEN TeamStep("handleAddToTeam", teamRoster, localStorage, TRUE)
       ELSE TeamStep("handleAddToTeam", added.roster,
                     saveTeam(added.roster, localStorage).item, TRUE)

\* handleRemove (TeamRoster): removePokemon, then saveTeam
HandleRemove ==
  \E p \in Shown :
    LET R == removePokemon(teamRoster, p)
    IN TeamStep("handleRemove", R, saveTeam(R, localStorage).item, TRUE)

\* handleDrop (TeamRoster): nothing when dropped on itself, else
\* reorderTeam, then saveTeam
HandleDrop ==
  \E dragged \in Shown, target \in Shown :
    LET R == reorderTeam(teamRoster, dragged, target)
    IN IF dragged = target
       THEN TeamStep("handleDrop", teamRoster, localStorage, TRUE)
       ELSE TeamStep("handleDrop", R, saveTeam(R, localStorage).item, TRUE)

\* a fresh session: the store is constructed with an empty roster and the
\* view calls loadTeam when it is mounted
FreshSession == TeamStep("freshSession", loadTeam(<< >>, localStorage), localStorage, TRUE)

NextTeam ==
  \/ AddPokemon
  \/ RemovePokemon
  \/ ReorderTeam
  \/ ClearTeam
  \/ SaveTeam
  \/ LoadTeam
  \/ DeleteTeam
  \/ SetItem
  \/ HandleAddToTeam
  \/ HandleRemove
  \/ HandleDrop
  \/ FreshSession

SpecTeam == InitTeam /\ [][NextTeam]_vars

\* C29: after any sequence of operations of the team store the roster has at
\* most 6 members, every member has 1 to 4 selected moves, and no two
\* members are the same species.
C29_RosterInvariants ==
  /\ Len(teamRoster) <= 6
  /\ \A i \in 1..Len(teamRoster) :
       Len(teamRoster[i].selectedMoves) >= 1 /\ Len(teamRoster[i].selectedMoves) <= 4
  /\ \A i, j \in 1..Len(teamRoster) :
       teamRoster[i].pokemon = teamRoster[j].pokemon => i = j

\* C30: when every operation so far was an edit through the UI (add, remove,
\* reorder, each followed by saveTeam), loadTeam in a fresh session yields
\* exactly the roster as it was after the last edit.
C30_TeamPersists ==
  [][(teamCall.uiOnly /\ teamCall'.op = "freshSession") => teamRoster' = teamRoster]_vars

\* a roster that is not empty when the fresh session starts is loaded as it was
NonEmptyRosterPersists ==
  [][(teamCall.uiOnly /\ teamCall'.op = "freshSession" /\ teamRoster # << >>)
       => teamRoster' = teamRoster]_vars

(***************************************************************************)
(* The type chart service (services/typeChart/typeChartService.ts) and its *)
(* cache (typeChartCache.ts).  A chart is its origin and the set of types  *)
(* it has a row for; the types are numbered 1..18.  One call draws what    *)
(* the network delivers: the types whose fetchType gave a response, the    *)
(* responses that are no type data, whether the transformer throws on      *)
(* them, and whether localStorage has room.  The clock counts days.        *)
(***************************************************************************)
MaxChartOps == 4
NumTypes == 18
CACHE_DURATION == 7
CACHE_VERSION == "1.0.0"

POKEMON_TYPES == 1..NumTypes
TYPE_CHART == [origin |-> "hardcoded", keys |-> POKEMON_TYPES]

FetchedSets == {{}, POKEMON_TYPES \ {1}, POKEMON_TYPES}
MalformedSets == {{}, {2}}

\* transformPokeAPIToTypeChart: a row for every response that is type data
transformPokeAPIToTypeChart(types, malformed) ==
  [origin |-> "api", keys |-> types \ malformed]

\* isValidTypeChart: every one of the 18 types is a key of the chart
isValidTypeChart(typeChart) == \A type \in POKEMON_TYPES : type \in typeChart.keys

\* loadCache: null when there is no item or JSON.parse throws
loadCache(item) ==
  IF item.kind = "none" THEN [found |-> FALSE]
  ELSE IF ParseThrows(item) THEN [found |-> FALSE]
  ELSE [found |-> TRUE, cache |-> Parse(item)]

\* isCacheValid: version, required fields, expiry, and a chart object
isCacheValid(cached, now) ==
  IF ~cached.found THEN FALSE
  ELSE IF cached.cache.version # CACHE_VERSION THEN FALSE
  ELSE IF ~({"fetchedAt", "expiresAt", "source"} \subseteq DOMAIN cached.cache) THEN FALSE
  ELSE IF now > cached.cache.expiresAt THEN FALSE
  ELSE IF "typeChart" \notin DOMAIN cached.cache THEN FALSE
  ELSE TRUE

\* saveCache: the item is written unless localStorage refuses it
saveCache(item, typeChart, source, now, quota) ==
  IF quota THEN item
  ELSE Stringify([version |-> CACHE_VERSION, typeChart |-> typeChart, fetchedAt |-> now,
                  expiresAt |-> now + CACHE_DURATION, source |-> source])

Fallback(item) ==
  [result |-> [success |-> TRUE, data |-> TYPE_CHART, source |-> "fallback"], item |-> item]

\* the chart of the API returned and cached without isValidTypeChart
loadTypeChartUnvalidated(item, now, types, malformed, throws, quota) ==
  LET cached == loadCache(item)
      typeChart == transformPokeAPIToTypeChart(types, malformed)
  IN IF isCacheValid(cached, now)
     THEN [result |-> [success |-> TRUE, data |-> cached.cache.typeChart, source |-> "cache"],
           item |-> item]
     ELSE IF Cardinality(types) = NumTypes /\ ~throws
     THEN [result |-> [success |-> TRUE, data |-> typeChart, source |-> "api"],
           item |-> saveCache(item, typeChart, "api", now, quota)]
     ELSE Fallback(item)

loadTypeChart(item, now, types, malformed, throws, quota) ==
  LET cached == loadCache(item)
      typeChart == transformPokeAPIToTypeChart(types, malformed)
  IN IF isCacheValid(cached, now)
     THEN [result |-> [success |-> TRUE, data |-> cached.cache.typeChart, source |-> "cache"],
           item |-> item]
     ELSE IF Cardinality(types) = NumTypes /\ ~throws /\ isValidTypeChart(typeChart)
     THEN [result |-> [success |-> TRUE, data |-> typeChart, source |-> "api"],
           item |-> saveCache(item, typeChart, "api", now, quota)]
     ELSE Fallback(item)

\* refreshTypeChart: no cache lookup and no isValidTypeChart
refreshTypeChart(item, now, types, malformed, throws, quota) ==
  LET typeChart == transformPokeAPIToTypeChart(types, malformed)
  IN IF throws
     THEN [result |-> [success |-> FALSE, data |-> TYPE_CHART, source |-> "fallback"], item |-> item]
     ELSE IF Cardinality(types) = NumTypes
     THEN [result |-> [success |-> TRUE, data |-> typeChart, source |-> "api"],
           item |-> saveCache(item, typeChart, "api", now, quota)]
     ELSE [result |-> [success |-> FALSE, data |-> TYPE_CHART, source |-> "fallback"], item |-> item]

\* what the cache key can hold from an earlier version of the application
OldCaches ==
  { Unparseable,
    Stringify([version |-> "0.9.0", typeChart |-> TYPE_CHART, fetchedAt |-> 0,
               expiresAt |-> CACHE_DURATION, source |-> "api"]),
    Stringify([version |-> CACHE_VERSION, typeChart |-> TYPE_CHART]) }

InitChart ==
  /\ StoreInit
  /\ fn = NoFn
  /\ teamRoster = << >>
  /\ localStorage = NoItem
  /\ teamCall = NoTeamCall
  /\ chartCache \in {NoItem} \cup OldCaches
  /\ chartCall = NoChartCall
  /\ fetchCall = NoFetch

ChartStep(call, item) ==
  /\ chartCall.n < MaxChartOps
  /\ chartCall' = call @@ [n |-> chartCall.n + 1, now |-> chartCall.now]
  /\ chartCache' = item
  /\ UNCHANGED <<storeVars, fn, teamRoster, localStorage, teamCall, fetchCall>>

\* the throw of the transformer is drawn only when a response is malformed
Delivered(types, malformed, throws) ==
  /\ malformed \subseteq types
  /\ throws => malformed # {}

LoadTypeChart ==
  \E types \in FetchedSets, malformed \in MalformedSets, throws \in BOOLEAN, quota \in BOOLEAN :
    /\ Delivered(types, malformed, throws)
    /\ LET out == loadTypeChart(chartCache, chartCall.now, types, malformed, throws, quota)
       IN ChartStep([op |-> "loadTypeChart", types |-> types, malformed |-> malformed,
                     throws |-> throws, result |-> out.result], out.item)

RefreshTypeChart ==
  \E types \in FetchedSets, malformed \in MalformedSets, throws \in BOOLEAN, quota \in BOOLEAN :
    /\ Delivered(types, malformed, throws)
    /\ LET out == refreshTypeChart(chartCache, chartCall.now, types, malformed, throws, quota)
       IN ChartStep([op |-> "refreshTypeChart", types |-> types, malformed |-> malformed,
                     throws |-> throws, result |-> out.result], out.item)

ClearCache == ChartStep([op |-> "clearCache"], NoItem)

\* days pass
Tick ==
  \E days \in {1, CACHE_DURATION} :
    /\ chartCall.n < MaxChartOps
    /\ chartCall' = [op |-> "tick", n |-> chartCall.n + 1, now |-> chartCall.now + days]
    /\ UNCHANGED <<storeVars, fn, teamRoster, localStorage, teamCall, chartCache, fetchCall>>

NextChart ==
  \/ LoadTypeChart
  \/ RefreshTypeChart
  \/ ClearCache
  \/ Tick

SpecChart == InitChart /\ [][NextChart]_vars

\* the valid unexpired cache, if there is one, when the call starts
CacheIsValid == isCacheValid(loadCache(chartCache), chartCall.now)

\* the chart was built from a response of every one of the 18 types and has
\* a row for each
FullyFetched(call) ==
  /\ call.types = POKEMON_TYPES
  /\ call.result.data.origin = "api"
  /\ call.result.data.keys = POKEMON_TYPES

MaxRetries == 3
FetchKinds == {"type", "pokemon", "move"}
FetchIds == {1, 25}

InitFetch ==
  /\ StoreInit
  /\ fn = NoFn
  /\ teamRoster = << >>
  /\ localStorage = NoItem
  /\ teamCall = NoTeamCall
  /\ chartCache = NoItem
  /\ chartCall = NoChartCall
  /\ \E kind \in FetchKinds, id \in FetchIds, cached \in SUBSET FetchIds :
       /\ kind = "type" => cached = {}
       /\ fetchCall = [kind |-> kind, id |-> id, cached |-> cached, had |-> cached,
                       pc |-> "start", retryCount |-> 0, requests |-> 0,
                       backoffs |-> << >>, result |-> "pending"]

FetchStep(call) ==
  /\ fetchCall' = call
  /\ UNCHANGED <<storeVars, fn, teamRoster, localStorage, teamCall, chartCache, chartCall>>

\* the call, and each of its retries, starts: a cached id is returned at
\* once, otherwise the request is sent and the abort timer set
FetchStart ==
  /\ fetchCall.pc = "start"
  /\ IF fetchCall.kind # "type" /\ fetchCall.id \in fetchCall.cached
     THEN FetchStep([fetchCall EXCEPT !.pc = "done", !.result = "value"])
     ELSE FetchStep([fetchCall EXCEPT !.pc = "fetching", !.requests = @ + 1])

\* 2^retryCount seconds
Pow2(n) == IF n = 0 THEN 1 ELSE IF n = 1 THEN 2 ELSE IF n = 2 THEN 4 ELSE 8

\* the fetch settles: a response arrives, the network fails, or the timer
\* aborts the request
FetchSettles ==
  /\ fetchCall.pc = "fetching"
  /\ \E outcome \in {"429", "notOk", "ok", "networkError", "abort"} :
       IF outcome = "429" /\ fetchCall.retryCount < MaxRetries
       THEN FetchStep([fetchCall EXCEPT !.pc = "backoff",
                                        !.backoffs = Append(@, Pow2(fetchCall.retryCount))])
       ELSE IF outcome = "ok"
       THEN FetchStep([fetchCall EXCEPT !.pc = "body"])
       ELSE FetchStep([fetchCall EXCEPT !.pc = "done", !.result = "null"])

\* the backoff elapses and the function calls itself with retryCount + 1
BackoffElapses ==
  /\ fetchCall.pc = "backoff"
  /\ FetchStep([fetchCall EXCEPT !.pc = "start", !.retryCount = @ + 1])

\* response.json() settles: fetchType returns the data as it is; the other
\* two validate and transform it and cache the result
BodySettles ==
  /\ fetchCall.pc = "body"
  /\ \E outcome \in {"valid", "invalid", "jsonThrows", "transformThrows"} :
       IF outcome = "jsonThrows"
       THEN FetchStep([fetchCall EXCEPT !.pc = "done", !.result = "null"])
       ELSE IF fetchCall.kind = "type"
       THEN FetchStep([fetchCall EXCEPT !.pc = "done", !.result = "value"])
       ELSE IF outcome = "valid"
       THEN FetchStep([fetchCall EXCEPT !.pc = "done", !.result = "value",
                                        !.cached = @ \cup {fetchCall.id}])
       ELSE FetchStep([fetchCall EXCEPT !.pc = "done", !.result = "null"])

NextFetch ==
  \/ FetchStart
  \/ FetchSettles
  \/ BackoffElapses
  \/ BodySettles

\* the event loop runs every timer and every settled promise; the abort
\* timer settles the fetch.  Nothing bounds the arrival of the body.
SpecFetch ==
  /\ InitFetch
  /\ [][NextFetch]_vars
  /\ WF_vars(FetchStart)
  /\ WF_vars(FetchSettles)
  /\ WF_vars(BackoffElapses)

\* at most 4 requests, backoffs 1 s, 2 s, 4 s, and null without caching
FetchBounded ==
  /\ fetchCall.requests <= 4
  /\ \A i \in 1..Len(fetchCall.backoffs) : fetchCall.backoffs[i] = <<1, 2, 4>>[i]
  /\ Len(fetchCall.backoffs) <= 3
  /\ fetchCall.result = "null" => fetchCall.cached = fetchCall.had

\* C32: every PokeAPI fetch terminates: the call ends with a value or null.
C32_FetchTerminates == <>(fetchCall.pc = "done")

\* C33: every battle move of a converted team member carries the effect of
\* the move selected in the team builder.
C33_ConvertedMoveKeepsEffect ==
  \A i \in 1..Len(playerTeam) :
    LET sp == heap[playerTeam[i]].species
    IN sp \in DOMAIN TeamMembers =>
         \A j \in 1..Len(TeamMembers[sp].selectedMoves) :
           Def(State, playerTeam[i]).moves[j].effect = TeamMembers[sp].selectedMoves[j].effect

(***************************************************************************)
(* The store with the event loop's guarantee: a suspended selectPlayerMove *)
(* is resumed when its timer fires.  Calls made by the user or the screen  *)
(* are never forced.                                                       *)
(***************************************************************************)
Resume ==
  \/ ResumeMiss
  \/ ResumeHit
  \/ ResumeStatus
  \/ ResumeEffectiveness
  \/ ResumeDamage
  \/ ResumeEffectMessage
  \/ ResumeSwitch
  \/ ResumeGap
  \/ ResumeEnd

SpecLive == Init /\ [][Next]_vars /\ WF_vars(Resume)

\* C34: an accepted call of selectPlayerMove, whatever its move id,
\* eventually leaves phase resolving.
C34_ResolvingEnds == (phase = "resolving") ~> (phase # "resolving")

C36_ActivesAliveAndIndexed ==
  (phase = "select" /\ winner = Null /\ playerTeam # << >>) =>
    /\ Hp(State, player) > 0
    /\ Hp(State, npc) > 0
    /\ currentPlayerIndex < Len(playerTeam)
    /\ player = playerTeam[currentPlayerIndex + 1]
    /\ currentNpcIndex < Len(npcTeam)
    /\ npc = npcTeam[currentNpcIndex + 1]

\* C37: the second attack of a turn is executed only if the creature that
\* was the second actor at the start of the turn, the defender of the first
\* attack, still has currentHp > 0.
C37_NoSecondAttackAfterFaint ==
  [][(pc = "gapWait" /\ pc' \in AttackPcs /\ cur'.nth = 2)
       => Hp(State, cur.defender) > 0]_vars

\* an accepted call of selectPlayerMove with a known move starts a turn
TurnStarts == pc = "idle" /\ pc' \in AttackPcs

\* C38: a battle consumes one random stream: the draws of a turn after the
\* first continue where the turn before stopped, so after the opponent's
\* choice and the first accuracy roll of such a turn the stream is beyond
\* its second position.
C38_OneStreamPerBattle ==
  [][(TurnStarts /\ turn > 1) => rngPos' > 2]_vars

\* a step inside a battle: it neither starts a battle nor resets the store
SameBattle == battles' = battles /\ ~(playerTeam # << >> /\ playerTeam' = << >>)

\* C39: within one battle the log before an operation is a prefix of the log
\* after it, and a step that starts a turn appends at least one entry.
C39_LogAppendOnly ==
  [][/\ SameBattle => (/\ Len(log') >= Len(log)
                       /\ SubSeq(log', 1, Len(log)) = log)
     /\ TurnStarts => Len(log') > Len(log)]_vars

C39_Witness == turn >= 2 /\ pc \in AttackPcs /\ Len(log) >= 4

\* the step in which executeAttack finds that the move missed
AttackMisses == pc # "missWait" /\ pc' = "missWait"

====
